---------------------------- MODULE Spec2Model ----------------------------
(***************************************************************************)
(* Model of the transactional batch applier of themelio-stf                *)
(* (src/src/state/applytx.rs): StateHandle::new, apply_tx_batch with its   *)
(* sequential admission pass and its three parallel passes (special rules, *)
(* outputs, inputs), and commit.                                           *)
(*                                                                         *)
(* Hashes are modelled as injective: a transaction's signature-stripped    *)
(* hash is the field `hash` of its record, a covenant's hash is the        *)
(* covenant's number, and the keyed hash of faucet_dedup_pseudocoin maps   *)
(* transaction hashes into a range disjoint from them.                     *)
(***************************************************************************)
EXTENDS Integers, Sequences, FiniteSets, TLC

VARIABLES
    state,      \* the State the handle borrows: coins, transactions, stakes, scalars
    handle,     \* the StateHandle's overlay caches
    txx,        \* the batch given to apply_tx_batch
    pc,         \* position of apply_tx_batch / commit
    i,          \* index of the admission pass (for tx in txx.iter())
    done,       \* batch positions whose task of the current parallel pass has finished
    tasks,      \* locals of the apply_tx_inputs tasks, one per batch position
    err,        \* the StateError apply_tx_batch returned
    err_at,     \* the pass and the batch position whose transaction raised it
    prior,      \* the State as it was when the handle was created
    applied,    \* number of transactions committed so far
    ex          \* a covenant VM Executor run on its own, as the opcode tests run it;
                \* its program is the program of covenant COV_EX

vars == <<state, handle, txx, pc, i, done, tasks, err, err_at, prior, applied, ex>>

----------------------------------------------------------------------------
(* Bounds of the model *)

\* longest batch given to apply_tx_batch
MaxBatch == 2

\* number of transactions committed in one behaviour
MaxTxs == 3

\* width, in bits, of the modelled u128 amounts
ValueBits == 6

\* width, in bits, of the modelled U256 words of the covenant VM
WordBits == 4

\* longest program of the free-form programs given to the VM
MaxProg == 3

----------------------------------------------------------------------------
(* Option, maps *)

None == <<>>

Some(v) == <<v>>

IsSome(o) == o # <<>>

Unwrap(o) == o[1]

\* HashMap / DashMap insert
MapPut(m, k, v) == [x \in (DOMAIN m) \cup {k} |-> IF x = k THEN v ELSE m[x]]

\* HashMap / DashMap get
MapGet(m, k) == IF k \in DOMAIN m THEN Some(m[k]) ELSE None

EmptyMap == <<>>

U128_MAX == 2 ^ ValueBits - 1

saturating_add(a, b) == IF a + b > U128_MAX THEN U128_MAX ELSE a + b

Max(a, b) == IF a >= b THEN a ELSE b

----------------------------------------------------------------------------
(* Data: denominations, coins, errors *)

Denom(kind, of) == [kind |-> kind, of |-> of]

Mel == Denom("Mel", 0)

Sym == Denom("Sym", 0)

Erg == Denom("Erg", 0)

NewCoin == Denom("NewCoin", 0)

Custom(txhash) == Denom("Custom", txhash)

CoinID(txhash, index) == [txhash |-> txhash, index |-> index]

NoCoinID == CoinID(-1, 0)

CoinData(denom, value, covhash) == [denom |-> denom, value |-> value, covhash |-> covhash]

CoinDataHeight(coin_data, height) == [coin_data |-> coin_data, height |-> height]

StakeDoc(e_start, e_post_end, syms_staked) ==
    [e_start |-> e_start, e_post_end |-> e_post_end, syms_staked |-> syms_staked]

\* Address::coin_destroy() and HashVal::default(): the all-zero hash
coin_destroy == 0

\* the StateError values; `coin` and `n` carry the variant's payload
StateError(kind, coin, n) == [kind |-> kind, coin |-> coin, n |-> n]

Ok == StateError("Ok", NoCoinID, 0)

DuplicateTx == StateError("DuplicateTx", NoCoinID, 0)

MalformedTx == StateError("MalformedTx", NoCoinID, 0)

UnbalancedInOut == StateError("UnbalancedInOut", NoCoinID, 0)

InsufficientFees(min_fee) == StateError("InsufficientFees", NoCoinID, min_fee)

NonexistentCoin(coin_id) == StateError("NonexistentCoin", coin_id, 0)

NonexistentScript(covhash) == StateError("NonexistentScript", NoCoinID, covhash)

ViolatesScript(covhash) == StateError("ViolatesScript", NoCoinID, covhash)

CoinLocked == StateError("CoinLocked", NoCoinID, 0)

InvalidMelPoW == StateError("InvalidMelPoW", NoCoinID, 0)

\* a Rust panic (unwrap of None, division by zero): neither Ok nor a StateError
Panic == StateError("Panic", NoCoinID, 0)

----------------------------------------------------------------------------
(* Program constants *)

STAKE_EPOCH == 200000

\* height below which Mainnet and Testnet run the old stake rules
OLD_STAKE_RULES_HEIGHT == 500000

\* minimum age of the coin a DoscMint spends, on Mainnet
MIN_DOSC_AGE == 100

\* BlockHeight::epoch
epoch(height) == height \div STAKE_EPOCH

----------------------------------------------------------------------------
(* The covenant VM (crate::melvm), as far as the opcode tests and the        *)
(* applier use it: a stack machine over U256 words.  An Executor is the      *)
(* program, the instruction pointer, the stack (top last), and whether a     *)
(* step has returned None.                                                   *)

U256_MAX == 2 ^ WordBits - 1

PushI(n) == [op |-> "PushI", n |-> n]

Noop == [op |-> "Noop", n |-> 0]

Add == [op |-> "Add", n |-> 0]

Sub == [op |-> "Sub", n |-> 0]

Mul == [op |-> "Mul", n |-> 0]

Div == [op |-> "Div", n |-> 0]

Rem == [op |-> "Rem", n |-> 0]

\* Executor::new(ops, ..)
Executor(ops) == [ops |-> ops, pc |-> 0, stack |-> <<>>, halted |-> FALSE, result |-> None]

\* no Executor is running
NoExecutor == [ops |-> <<>>, pc |-> -1, stack |-> <<>>, halted |-> FALSE, result |-> None]

\* binop with the operands the other way round
binop_swapped(op, top, second) ==
    CASE op = "Add" -> Some((second + top) % (U256_MAX + 1))
      [] op = "Sub" -> Some((second - top) % (U256_MAX + 1))
      [] op = "Mul" -> Some((second * top) % (U256_MAX + 1))
      [] op = "Div" -> IF top = 0 THEN None ELSE Some(second \div top)
      [] op = "Rem" -> IF top = 0 THEN None ELSE Some(second % top)

\* a binary operator on words: the value popped first (the top) is the left
\* operand, the value popped second the right one; None when it is undefined
binop(op, top, second) ==
    CASE op = "Add" -> Some((top + second) % (U256_MAX + 1))
      [] op = "Sub" -> Some((top - second) % (U256_MAX + 1))
      [] op = "Mul" -> Some((top * second) % (U256_MAX + 1))
      [] op = "Div" -> IF second = 0 THEN None ELSE Some(top \div second)
      [] op = "Rem" -> IF second = 0 THEN None ELSE Some(top % second)

\* Executor::step: one instruction; halted when step returns None
step(e) ==
    LET o == e.ops[e.pc + 1]
        n == Len(e.stack)
    IN  CASE o.op = "PushI" ->
                [e EXCEPT !.pc = @ + 1, !.stack = Append(@, o.n)]
          [] o.op = "Noop" ->
                [e EXCEPT !.pc = @ + 1]
          [] OTHER ->
                IF n < 2 THEN [e EXCEPT !.halted = TRUE]
                ELSE LET r == binop(o.op, e.stack[n], e.stack[n - 1])
                     IN  IF ~IsSome(r) THEN [e EXCEPT !.halted = TRUE]
                         ELSE [e EXCEPT !.pc = @ + 1,
                                        !.stack = Append(SubSeq(@, 1, n - 2), Unwrap(r))]

RECURSIVE run_to_end(_)
\* step until the instruction pointer is at the end of the program, or a
\* step returns None
run_to_end(e) ==
    IF e.halted \/ e.pc >= Len(e.ops) THEN e ELSE run_to_end(step(e))

\* whether a word counts as true
truthy(v) == v # 0

\* check_raw taking the top of the stack whether or not a step has returned
\* None
check_raw_ignoring_fault(ops) ==
    LET e == run_to_end(Executor(ops))
    IN  /\ Len(e.stack) > 0
        /\ truthy(e.stack[Len(e.stack)])

\* Covenant::check_raw: the program ran to its end without a fault and left a
\* true value on top of the stack
check_raw(ops) ==
    LET e == run_to_end(Executor(ops))
    IN  /\ ~e.halted
        /\ Len(e.stack) > 0
        /\ truthy(e.stack[Len(e.stack)])

----------------------------------------------------------------------------
(* Covenants.  Covenant n has hash n.  COV_IDX0 stands for a script that     *)
(* reads its spend context and accepts only the input at position 0; the     *)
(* other covenants are the programs given by Program.  COV_EX is the         *)
(* covenant whose program is the one loaded in the Executor.                 *)

COV_TRUE == 1

COV_IDX0 == 2

COV_EX == 3

\* the program of a covenant: COV_EX is the covenant whose program the
\* Executor holds; any other hash has the empty program
Program(script) ==
    CASE script = COV_TRUE -> <<PushI(1)>>
      [] script = COV_EX -> ex.ops
      [] OTHER -> <<>>

\* Covenant::check(tx, CovenantEnv {parent_coinid, parent_cdh, spender_index, ..})
check(script, tx, parent_coinid, parent_cdh, spender_index) ==
    IF script = COV_IDX0 THEN spender_index = 0 ELSE check_raw(Program(script))

----------------------------------------------------------------------------
(* Transactions *)

\* tx.data as stdcode::deserialize reads it: as a StakeDoc, and as the
\* (difficulty, proof) pair of a DoscMint; None where the bytes do not decode
TxData(stake, mint) == [stake |-> stake, mint |-> mint]

\* a decoded (difficulty, proof), with what proof.verify returns under each hash
MintProof(difficulty, legacy, tip910) ==
    [difficulty |-> difficulty, legacy |-> legacy, tip910 |-> tip910]

Transaction(hash, kind, inputs, outputs, fee, weight, covenants, data, well_formed) ==
    [hash |-> hash, kind |-> kind, inputs |-> inputs, outputs |-> outputs, fee |-> fee,
     weight |-> weight, covenants |-> covenants, data |-> data,
     well_formed |-> well_formed]

\* Transaction::hash_nosigs
hash_nosigs(tx) == tx.hash

\* Transaction::covenants_as_map: the hashes of the covenants the transaction carries
covenants_as_map(tx) == tx.covenants

\* Transaction::is_well_formed
is_well_formed(tx) == tx.well_formed

\* Transaction::base_fee(fee_multiplier, 0, weight)
base_fee(tx, fee_multiplier) == tx.weight * fee_multiplier

RECURSIVE SumOutputs(_, _, _)
\* sum of the values of the first n outputs of denomination d
SumOutputs(outputs, d, n) ==
    IF n = 0 THEN 0
    ELSE SumOutputs(outputs, d, n - 1)
         + (IF outputs[n].denom = d THEN outputs[n].value ELSE 0)

\* Transaction::total_outputs: per denomination of the outputs, the summed value;
\* the fee is counted under Mel
total_outputs(tx) ==
    LET ds == {tx.outputs[k].denom : k \in 1..Len(tx.outputs)} \cup {Mel}
    IN  [d \in ds |-> SumOutputs(tx.outputs, d, Len(tx.outputs))
                      + (IF d = Mel THEN tx.fee ELSE 0)]

\* the keyed hash "fdp" of a transaction hash: disjoint from transaction hashes
fdp_hash(txhash) == 100 + txhash

faucet_dedup_pseudocoin(txhash) == CoinID(fdp_hash(txhash), 0)

\* the marker coin the admission pass registers for a Faucet transaction
faucet_marker == CoinDataHeight(CoinData(Mel, 0, coin_destroy), 0)

----------------------------------------------------------------------------
(* StateHandle: constructor and overlay accessors *)

\* new, forgetting to seed the fee pool from the state
new_unseeded(st) ==
    [coin_cache |-> EmptyMap,
     transactions_cache |-> EmptyMap,
     fee_pool_cache |-> 0,
     tips_cache |-> st.tips,
     dosc_speed_cache |-> st.dosc_speed,
     stakes_cache |-> EmptyMap]

new(st) ==
    [coin_cache |-> EmptyMap,
     transactions_cache |-> EmptyMap,
     fee_pool_cache |-> st.fee_pool,
     tips_cache |-> st.tips,
     dosc_speed_cache |-> st.dosc_speed,
     stakes_cache |-> EmptyMap]

\* the handle of a position where no StateHandle exists
NoHandle ==
    [coin_cache |-> EmptyMap, transactions_cache |-> EmptyMap, fee_pool_cache |-> 0,
     tips_cache |-> 0, dosc_speed_cache |-> 0, stakes_cache |-> EmptyMap]

\* entry(coin_id).or_insert_with(store lookup): fills the cache on a miss
get_coin(st, h, coin_id) ==
    IF coin_id \in DOMAIN h.coin_cache
    THEN [h |-> h, v |-> h.coin_cache[coin_id]]
    ELSE LET v == MapGet(st.coins, coin_id)
         IN  [h |-> [h EXCEPT !.coin_cache = MapPut(@, coin_id, v)], v |-> v]

set_coin(h, coin_id, value) == [h EXCEPT !.coin_cache = MapPut(@, coin_id, Some(value))]

del_coin(h, coin_id) == [h EXCEPT !.coin_cache = MapPut(@, coin_id, None)]

\* On a cache miss with the StakeDoc in the store, the result is what
\* DashMap::insert returns: the value the key had before, which is None.
\* (Two tasks that both miss: the second insert returns the first one's value,
\* so exactly one caller per handle and txhash gets None, as here.)
get_stake(st, h, txhash) ==
    IF txhash \in DOMAIN h.stakes_cache
    THEN [h |-> h, v |-> Some(h.stakes_cache[txhash])]
    ELSE IF txhash \in DOMAIN st.stakes
         THEN [h |-> [h EXCEPT !.stakes_cache = MapPut(@, txhash, st.stakes[txhash])],
               v |-> None]
         ELSE [h |-> h, v |-> None]

set_stake(h, txhash, sdoc) == [h EXCEPT !.stakes_cache = MapPut(@, txhash, sdoc)]

----------------------------------------------------------------------------
(* Pass 1: admission of one transaction (the body of the for loop) *)

\* apply_tx_fees, with wrapping additions
apply_tx_fees_wrapping(st, h, tx) ==
    LET min_fee == base_fee(tx, st.fee_multiplier)
    IN  IF tx.fee < min_fee
        THEN [h |-> h, r |-> InsufficientFees(min_fee)]
        ELSE [h |-> [h EXCEPT !.tips_cache = (@ + (tx.fee - min_fee)) % (U128_MAX + 1),
                              !.fee_pool_cache = (@ + min_fee) % (U128_MAX + 1)],
              r |-> Ok]

apply_tx_fees(st, h, tx) ==
    LET min_fee == base_fee(tx, st.fee_multiplier)
    IN  IF tx.fee < min_fee
        THEN [h |-> h, r |-> InsufficientFees(min_fee)]
        ELSE [h |-> [h EXCEPT !.tips_cache = saturating_add(@, tx.fee - min_fee),
                              !.fee_pool_cache = saturating_add(@, min_fee)],
              r |-> Ok]

\* admit_tx, forgetting to register the Faucet marker coin
admit_tx_no_marker(st, h, tx) ==
    LET pseudocoin == faucet_dedup_pseudocoin(hash_nosigs(tx))
        got == get_coin(st, h, pseudocoin)
        h1 == IF tx.kind = "Faucet" THEN got.h ELSE h
        h2 == [h1 EXCEPT !.transactions_cache = MapPut(@, hash_nosigs(tx), tx)]
    IN  IF tx.kind = "Faucet" /\ IsSome(got.v) THEN [h |-> got.h, r |-> DuplicateTx]
        ELSE IF ~is_well_formed(tx) THEN [h |-> h1, r |-> MalformedTx]
        ELSE IF tx.kind = "Faucet" /\ st.network = "Mainnet"
             THEN [h |-> h1, r |-> UnbalancedInOut]
        ELSE apply_tx_fees(st, h2, tx)

admit_tx(st, h, tx) ==
    LET pseudocoin == faucet_dedup_pseudocoin(hash_nosigs(tx))
        got == get_coin(st, h, pseudocoin)
        h1 == IF tx.kind = "Faucet" THEN set_coin(got.h, pseudocoin, faucet_marker) ELSE h
        h2 == [h1 EXCEPT !.transactions_cache = MapPut(@, hash_nosigs(tx), tx)]
    IN  IF tx.kind = "Faucet" /\ IsSome(got.v) THEN [h |-> got.h, r |-> DuplicateTx]
        ELSE IF ~is_well_formed(tx) THEN [h |-> h1, r |-> MalformedTx]
        ELSE IF tx.kind = "Faucet" /\ st.network = "Mainnet"
             THEN [h |-> h1, r |-> UnbalancedInOut]
        ELSE apply_tx_fees(st, h2, tx)

----------------------------------------------------------------------------
(* Pass 2: the special-rule validators *)

\* melmint::calculate_reward: the reward curve, which lives outside the batch
\* applier; a stand-in that grows with the work done and the measured speed
\* and shrinks with the recorded speed
calculate_reward(my_speed, dosc_speed, difficulty, is_tip910) ==
    LET s == Max(dosc_speed, 1)
    IN  (2 ^ difficulty * my_speed) \div (s * s * (IF is_tip910 THEN 2 ELSE 1))

\* melmint::dosc_to_erg: the inflation of the minted unit with the height
dosc_to_erg(height, real) == real * (1 + epoch(height))

\* apply_tx_special_doscmint, without the comparison of the minted output
\* with the reward
apply_tx_special_doscmint_unchecked(st, h, tx) ==
    IF Len(tx.inputs) = 0 THEN [h |-> h, r |-> Panic]   \* tx.inputs.get(0).unwrap()
    ELSE
    LET coin_id == tx.inputs[1]
        got == get_coin(st, h, coin_id)
    IN  IF ~IsSome(got.v) THEN [h |-> got.h, r |-> MalformedTx]
        ELSE
        LET coin_data == Unwrap(got.v)
            age == st.height - coin_data.height
            mint == tx.data.mint
        IN  IF age < MIN_DOSC_AGE /\ st.network = "Mainnet"
            THEN [h |-> got.h, r |-> InvalidMelPoW]
            \* history.get(&coin_data.height).0.unwrap(): only sealed heights have a header
            ELSE IF coin_data.height >= st.height THEN [h |-> got.h, r |-> Panic]
            ELSE IF ~IsSome(mint) THEN [h |-> got.h, r |-> MalformedTx]
            ELSE IF ~Unwrap(mint).legacy /\ ~Unwrap(mint).tip910
                 THEN [h |-> got.h, r |-> InvalidMelPoW]
            ELSE IF age = 0 THEN [h |-> got.h, r |-> Panic]   \* division by zero
            ELSE
            LET difficulty == Unwrap(mint).difficulty
                is_tip910 == ~Unwrap(mint).legacy
                my_speed == (2 ^ difficulty) \div age
                reward_real ==
                    calculate_reward(my_speed, st.last_dosc_speed, difficulty, is_tip910)
                h1 == [got.h EXCEPT !.dosc_speed_cache = Max(@, my_speed)]
                reward_nom == dosc_to_erg(st.height, reward_real)
            IN  [h |-> h1, r |-> Ok]

\* apply_tx_special_doscmint, storing its own speed in place of the maximum
apply_tx_special_doscmint_last_speed(st, h, tx) ==
    IF Len(tx.inputs) = 0 THEN [h |-> h, r |-> Panic]   \* tx.inputs.get(0).unwrap()
    ELSE
    LET coin_id == tx.inputs[1]
        got == get_coin(st, h, coin_id)
    IN  IF ~IsSome(got.v) THEN [h |-> got.h, r |-> MalformedTx]
        ELSE
        LET coin_data == Unwrap(got.v)
            age == st.height - coin_data.height
            mint == tx.data.mint
        IN  IF age < MIN_DOSC_AGE /\ st.network = "Mainnet"
            THEN [h |-> got.h, r |-> InvalidMelPoW]
            \* history.get(&coin_data.height).0.unwrap(): only sealed heights have a header
            ELSE IF coin_data.height >= st.height THEN [h |-> got.h, r |-> Panic]
            ELSE IF ~IsSome(mint) THEN [h |-> got.h, r |-> MalformedTx]
            ELSE IF ~Unwrap(mint).legacy /\ ~Unwrap(mint).tip910
                 THEN [h |-> got.h, r |-> InvalidMelPoW]
            ELSE IF age = 0 THEN [h |-> got.h, r |-> Panic]   \* division by zero
            ELSE
            LET difficulty == Unwrap(mint).difficulty
                is_tip910 == ~Unwrap(mint).legacy
                my_speed == (2 ^ difficulty) \div age
                reward_real ==
                    calculate_reward(my_speed, st.last_dosc_speed, difficulty, is_tip910)
                h1 == [got.h EXCEPT !.dosc_speed_cache = my_speed]
                reward_nom == dosc_to_erg(st.height, reward_real)
                outs == total_outputs(tx)
                total_dosc_output == IF Erg \in DOMAIN outs THEN outs[Erg] ELSE 0
            IN  IF total_dosc_output > reward_nom
                THEN [h |-> h1, r |-> InvalidMelPoW]
                ELSE [h |-> h1, r |-> Ok]

apply_tx_special_doscmint(st, h, tx) ==
    IF Len(tx.inputs) = 0 THEN [h |-> h, r |-> Panic]   \* tx.inputs.get(0).unwrap()
    ELSE
    LET coin_id == tx.inputs[1]
        got == get_coin(st, h, coin_id)
    IN  IF ~IsSome(got.v) THEN [h |-> got.h, r |-> MalformedTx]
        ELSE
        LET coin_data == Unwrap(got.v)
            age == st.height - coin_data.height
            mint == tx.data.mint
        IN  IF age < MIN_DOSC_AGE /\ st.network = "Mainnet"
            THEN [h |-> got.h, r |-> InvalidMelPoW]
            \* history.get(&coin_data.height).0.unwrap(): only sealed heights have a header
            ELSE IF coin_data.height >= st.height THEN [h |-> got.h, r |-> Panic]
            ELSE IF ~IsSome(mint) THEN [h |-> got.h, r |-> MalformedTx]
            ELSE IF ~Unwrap(mint).legacy /\ ~Unwrap(mint).tip910
                 THEN [h |-> got.h, r |-> InvalidMelPoW]
            ELSE IF age = 0 THEN [h |-> got.h, r |-> Panic]   \* division by zero
            ELSE
            LET difficulty == Unwrap(mint).difficulty
                is_tip910 == ~Unwrap(mint).legacy
                my_speed == (2 ^ difficulty) \div age
                reward_real ==
                    calculate_reward(my_speed, st.last_dosc_speed, difficulty, is_tip910)
                h1 == [got.h EXCEPT !.dosc_speed_cache = Max(@, my_speed)]
                reward_nom == dosc_to_erg(st.height, reward_real)
                outs == total_outputs(tx)
                total_dosc_output == IF Erg \in DOMAIN outs THEN outs[Erg] ELSE 0
            IN  IF total_dosc_output > reward_nom
                THEN [h |-> h1, r |-> InvalidMelPoW]
                ELSE [h |-> h1, r |-> Ok]

\* apply_tx_special_stake, admitting a StakeDoc that starts in the current epoch
apply_tx_special_stake_ge(st, h, tx) ==
    IF ~IsSome(tx.data.stake) THEN [h |-> h, r |-> MalformedTx]
    ELSE IF Len(tx.outputs) = 0 THEN [h |-> h, r |-> MalformedTx]
    ELSE
    LET stake_doc == Unwrap(tx.data.stake)
        curr_epoch == epoch(st.height)
        first_coin == tx.outputs[1]
        is_first_coin_not_a_sym == first_coin.denom # Sym
    IN  IF (st.network = "Mainnet" \/ st.network = "Testnet")
           /\ st.height < OLD_STAKE_RULES_HEIGHT
        THEN [h |-> h, r |-> Ok]
        ELSE IF is_first_coin_not_a_sym THEN [h |-> h, r |-> MalformedTx]
        ELSE IF /\ stake_doc.e_start >= curr_epoch
                /\ stake_doc.e_post_end > stake_doc.e_start
                /\ stake_doc.syms_staked = first_coin.value
             THEN [h |-> set_stake(h, hash_nosigs(tx), stake_doc), r |-> Ok]
        ELSE [h |-> h, r |-> Ok]

\* apply_tx_special_stake, with the old rules applied on every network
apply_tx_special_stake_old_everywhere(st, h, tx) ==
    IF ~IsSome(tx.data.stake) THEN [h |-> h, r |-> MalformedTx]
    ELSE IF Len(tx.outputs) = 0 THEN [h |-> h, r |-> MalformedTx]
    ELSE
    LET stake_doc == Unwrap(tx.data.stake)
        curr_epoch == epoch(st.height)
        first_coin == tx.outputs[1]
        is_first_coin_not_a_sym == first_coin.denom # Sym
    IN  IF st.height < OLD_STAKE_RULES_HEIGHT
        THEN [h |-> h, r |-> Ok]
        ELSE IF is_first_coin_not_a_sym THEN [h |-> h, r |-> MalformedTx]
        ELSE IF /\ stake_doc.e_start > curr_epoch
                /\ stake_doc.e_post_end > stake_doc.e_start
                /\ stake_doc.syms_staked = first_coin.value
             THEN [h |-> set_stake(h, hash_nosigs(tx), stake_doc), r |-> Ok]
        ELSE [h |-> h, r |-> Ok]

\* apply_tx_special_stake, with an error for a StakeDoc that does not qualify
apply_tx_special_stake_strict(st, h, tx) ==
    IF ~IsSome(tx.data.stake) THEN [h |-> h, r |-> MalformedTx]
    ELSE IF Len(tx.outputs) = 0 THEN [h |-> h, r |-> MalformedTx]
    ELSE
    LET stake_doc == Unwrap(tx.data.stake)
        curr_epoch == epoch(st.height)
        first_coin == tx.outputs[1]
        is_first_coin_not_a_sym == first_coin.denom # Sym
    IN  IF (st.network = "Mainnet" \/ st.network = "Testnet")
           /\ st.height < OLD_STAKE_RULES_HEIGHT
        THEN [h |-> h, r |-> Ok]
        ELSE IF is_first_coin_not_a_sym THEN [h |-> h, r |-> MalformedTx]
        ELSE IF /\ stake_doc.e_start > curr_epoch
                /\ stake_doc.e_post_end > stake_doc.e_start
                /\ stake_doc.syms_staked = first_coin.value
             THEN [h |-> set_stake(h, hash_nosigs(tx), stake_doc), r |-> Ok]
        ELSE [h |-> h, r |-> MalformedTx]

apply_tx_special_stake(st, h, tx) ==
    IF ~IsSome(tx.data.stake) THEN [h |-> h, r |-> MalformedTx]
    ELSE IF Len(tx.outputs) = 0 THEN [h |-> h, r |-> MalformedTx]
    ELSE
    LET stake_doc == Unwrap(tx.data.stake)
        curr_epoch == epoch(st.height)
        first_coin == tx.outputs[1]
        is_first_coin_not_a_sym == first_coin.denom # Sym
    IN  IF (st.network = "Mainnet" \/ st.network = "Testnet")
           /\ st.height < OLD_STAKE_RULES_HEIGHT
        THEN [h |-> h, r |-> Ok]
        ELSE IF is_first_coin_not_a_sym THEN [h |-> h, r |-> MalformedTx]
        ELSE IF /\ stake_doc.e_start > curr_epoch
                /\ stake_doc.e_post_end > stake_doc.e_start
                /\ stake_doc.syms_staked = first_coin.value
             THEN [h |-> set_stake(h, hash_nosigs(tx), stake_doc), r |-> Ok]
        ELSE [h |-> h, r |-> Ok]

apply_tx_special(st, h, tx) ==
    CASE tx.kind = "DoscMint" -> apply_tx_special_doscmint(st, h, tx)
      [] tx.kind = "Stake" -> apply_tx_special_stake(st, h, tx)
      [] OTHER -> [h |-> h, r |-> Ok]

\* the filter of the special-rule pass
is_special(tx) == tx.kind # "Normal" /\ tx.kind # "Faucet"

----------------------------------------------------------------------------
(* Pass 3: outputs *)

RECURSIVE apply_outputs_upto(_, _, _, _)
\* the first n iterations of the for_each over tx.outputs
apply_outputs_upto(st, h, tx, n) ==
    IF n = 0 THEN h
    ELSE LET h1 == apply_outputs_upto(st, h, tx, n - 1)
             out == tx.outputs[n]
             denom == IF out.denom = NewCoin THEN Custom(hash_nosigs(tx)) ELSE out.denom
             coin_data == CoinData(denom, out.value, out.covhash)
         IN  IF out.covhash # coin_destroy
             THEN set_coin(h1, CoinID(hash_nosigs(tx), n - 1),
                           CoinDataHeight(coin_data, st.height))
             ELSE h1

\* apply_tx_outputs, inserting the outputs sent to the burn address as well
apply_tx_outputs_keeping_burnt(st, h, tx) ==
    LET outs == {CoinID(hash_nosigs(tx), n - 1) : n \in 1..Len(tx.outputs)}
        made(c) ==
            LET out == tx.outputs[c.index + 1]
                denom == IF out.denom = NewCoin THEN Custom(hash_nosigs(tx)) ELSE out.denom
            IN  CoinDataHeight(CoinData(denom, out.value, out.covhash), st.height)
    IN  [h EXCEPT !.coin_cache =
            [c \in (DOMAIN h.coin_cache) \cup outs |->
                IF c \in outs THEN Some(made(c)) ELSE h.coin_cache[c]]]

apply_tx_outputs(st, h, tx) == apply_outputs_upto(st, h, tx, Len(tx.outputs))

----------------------------------------------------------------------------
(* Pass 4: inputs.  A task's locals: the loop position idx (1-based), in_coins, *)
(* good_scripts and the coin_data read for the input in hand.  One input takes  *)
(* two steps, because the overlay is locked per call and not across calls:      *)
(* "check" (get_stake, get_coin, the script check) and "del" (del_coin and the  *)
(* accumulation); the balance check, which reads only locals, runs with the     *)
(* step that ends the loop.                                                     *)

new_task ==
    [pc |-> "check", idx |-> 1, in_coins |-> EmptyMap, good_scripts |-> {},
     coin_data |-> None]

\* lines 233-253: the balance of in_coins against tx.total_outputs()
balance_check(tx, in_coins) ==
    LET out_coins == total_outputs(tx)
        in_value(currency) ==
            IF currency \in DOMAIN in_coins THEN in_coins[currency] ELSE U128_MAX
        bad(currency) ==
            /\ ~(tx.kind = "DoscMint" /\ currency = Erg)
            /\ currency # NewCoin
            /\ out_coins[currency] # in_value(currency)
    IN  IF tx.kind # "Faucet" /\ \E currency \in DOMAIN out_coins : bad(currency)
        THEN UnbalancedInOut
        ELSE Ok

\* the loop exit: with no input left the task runs the balance check and ends
finish_if_last(h, tx, t) ==
    IF t.idx > Len(tx.inputs)
    THEN [h |-> h, t |-> [t EXCEPT !.pc = "done"], r |-> balance_check(tx, t.in_coins)]
    ELSE [h |-> h, t |-> t, r |-> Ok]

\* input_check, without the script check
input_check_no_script(st, h, tx, t) ==
    LET coin_id == tx.inputs[t.idx]
        staked == get_stake(st, h, coin_id.txhash)
        got == get_coin(st, staked.h, coin_id)
    IN  IF IsSome(staked.v) THEN [h |-> staked.h, t |-> t, r |-> CoinLocked]
        ELSE IF ~IsSome(got.v) THEN [h |-> got.h, t |-> t, r |-> NonexistentCoin(coin_id)]
        ELSE [h |-> got.h, t |-> [t EXCEPT !.pc = "del", !.coin_data = got.v], r |-> Ok]

\* input_check, evaluating the covenant for every input, whether or not its
\* covhash is among the good_scripts
input_check_every_input(st, h, tx, t) ==
    LET coin_id == tx.inputs[t.idx]
        spend_idx == t.idx - 1
        staked == get_stake(st, h, coin_id.txhash)
        got == get_coin(st, staked.h, coin_id)
    IN  IF IsSome(staked.v) THEN [h |-> staked.h, t |-> t, r |-> CoinLocked]
        ELSE IF ~IsSome(got.v) THEN [h |-> got.h, t |-> t, r |-> NonexistentCoin(coin_id)]
        ELSE
        LET coin_data == Unwrap(got.v)
            covhash == coin_data.coin_data.covhash
            held == [t EXCEPT !.pc = "del", !.coin_data = got.v]
        IN  IF covhash \notin covenants_as_map(tx)
            THEN [h |-> got.h, t |-> t, r |-> NonexistentScript(covhash)]
            ELSE IF ~check(covhash, tx, coin_id, coin_data, spend_idx)
                 THEN [h |-> got.h, t |-> t, r |-> ViolatesScript(covhash)]
            ELSE [h |-> got.h,
                  t |-> [held EXCEPT !.good_scripts = @ \cup {covhash}],
                  r |-> Ok]

\* lines 189-221: lock check, existence check, script check of input t.idx
input_check(st, h, tx, t) ==
    LET coin_id == tx.inputs[t.idx]
        spend_idx == t.idx - 1
        staked == get_stake(st, h, coin_id.txhash)
        got == get_coin(st, staked.h, coin_id)
    IN  IF IsSome(staked.v) THEN [h |-> staked.h, t |-> t, r |-> CoinLocked]
        ELSE IF ~IsSome(got.v) THEN [h |-> got.h, t |-> t, r |-> NonexistentCoin(coin_id)]
        ELSE
        LET coin_data == Unwrap(got.v)
            covhash == coin_data.coin_data.covhash
            held == [t EXCEPT !.pc = "del", !.coin_data = got.v]
        IN  IF covhash \in t.good_scripts THEN [h |-> got.h, t |-> held, r |-> Ok]
            ELSE IF covhash \notin covenants_as_map(tx)
                 THEN [h |-> got.h, t |-> t, r |-> NonexistentScript(covhash)]
            ELSE IF ~check(covhash, tx, coin_id, coin_data, spend_idx)
                 THEN [h |-> got.h, t |-> t, r |-> ViolatesScript(covhash)]
            ELSE [h |-> got.h,
                  t |-> [held EXCEPT !.good_scripts = @ \cup {covhash}],
                  r |-> Ok]

\* lines 222-227: del_coin and the accumulation into in_coins
input_del(h, tx, t) ==
    LET coin_id == tx.inputs[t.idx]
        coin_data == Unwrap(t.coin_data).coin_data
        old == IF coin_data.denom \in DOMAIN t.in_coins THEN t.in_coins[coin_data.denom] ELSE 0
        t1 == [t EXCEPT !.pc = "check", !.idx = @ + 1, !.coin_data = None,
                        !.in_coins = MapPut(@, coin_data.denom, old + coin_data.value)]
    IN  finish_if_last(del_coin(h, coin_id), tx, t1)

\* one step of the task of apply_tx_inputs(tx)
input_step(st, h, tx, t) ==
    IF t.pc = "del" THEN input_del(h, tx, t)
    ELSE IF t.idx > Len(tx.inputs) THEN finish_if_last(h, tx, t)
    ELSE input_check(st, h, tx, t)

RECURSIVE run_inputs(_, _, _, _)
\* apply_tx_inputs(tx) run from task state t to its end without interruption
run_inputs(st, h, tx, t) ==
    LET s == input_step(st, h, tx, t)
    IN  IF s.r # Ok \/ s.t.pc = "done" THEN s ELSE run_inputs(st, s.h, tx, s.t)

----------------------------------------------------------------------------
(* commit *)

\* commit, without the removals
commit_keeping_removed(st, h) ==
    LET cc == h.coin_cache
        present == {k \in DOMAIN cc : IsSome(cc[k])}
    IN  [st EXCEPT
            !.coins = [k \in (DOMAIN st.coins) \cup present |->
                          IF k \in present THEN Unwrap(cc[k]) ELSE st.coins[k]],
            !.transactions =
                [k \in (DOMAIN st.transactions) \cup (DOMAIN h.transactions_cache) |->
                    IF k \in DOMAIN h.transactions_cache
                    THEN h.transactions_cache[k] ELSE st.transactions[k]],
            !.fee_pool = h.fee_pool_cache,
            !.tips = h.tips_cache,
            !.stakes =
                [k \in (DOMAIN st.stakes) \cup (DOMAIN h.stakes_cache) |->
                    IF k \in DOMAIN h.stakes_cache
                    THEN h.stakes_cache[k] ELSE st.stakes[k]],
            !.dosc_speed = h.dosc_speed_cache]

commit(st, h) ==
    LET cc == h.coin_cache
        kept == {k \in (DOMAIN st.coins) \cup (DOMAIN cc) :
                    IF k \in DOMAIN cc THEN IsSome(cc[k]) ELSE TRUE}
    IN  [st EXCEPT
            !.coins = [k \in kept |-> IF k \in DOMAIN cc THEN Unwrap(cc[k]) ELSE st.coins[k]],
            !.transactions =
                [k \in (DOMAIN st.transactions) \cup (DOMAIN h.transactions_cache) |->
                    IF k \in DOMAIN h.transactions_cache
                    THEN h.transactions_cache[k] ELSE st.transactions[k]],
            !.fee_pool = h.fee_pool_cache,
            !.tips = h.tips_cache,
            !.stakes =
                [k \in (DOMAIN st.stakes) \cup (DOMAIN h.stakes_cache) |->
                    IF k \in DOMAIN h.stakes_cache
                    THEN h.stakes_cache[k] ELSE st.stakes[k]],
            !.dosc_speed = h.dosc_speed_cache]

----------------------------------------------------------------------------
(* The transactions batches are drawn from, and the states they are applied to *)

StakeData(e_start, e_post_end, syms_staked) ==
    TxData(Some(StakeDoc(e_start, e_post_end, syms_staked)), None)

MintData(difficulty, legacy, tip910) ==
    TxData(None, Some(MintProof(difficulty, legacy, tip910)))

NoData == TxData(None, None)

TxUniverse ==
    { \* spends c0; its second output goes to the burn address
      Transaction(1, "Normal", <<CoinID(0, 0)>>,
                  <<CoinData(Mel, 6, COV_TRUE), CoinData(Mel, 3, coin_destroy)>>,
                  1, 1, {COV_TRUE}, NoData, TRUE),
      \* spends c0 as well
      Transaction(2, "Normal", <<CoinID(0, 0)>>, <<CoinData(Mel, 9, COV_TRUE)>>,
                  1, 1, {COV_TRUE}, NoData, TRUE),
      \* spends the first output of transaction 1, creates a new token, pays a tip
      Transaction(3, "Normal", <<CoinID(1, 0)>>,
                  <<CoinData(Mel, 5, COV_TRUE), CoinData(NewCoin, 7, COV_TRUE)>>,
                  1, 0, {COV_TRUE}, NoData, TRUE),
      Transaction(4, "Faucet", <<>>, <<CoinData(Mel, 3, COV_TRUE)>>,
                  0, 0, {}, NoData, TRUE),
      \* a stake of 5 Sym for epochs 3..4
      Transaction(5, "Stake", <<CoinID(0, 1), CoinID(0, 2)>>,
                  <<CoinData(Sym, 5, COV_TRUE), CoinData(Mel, 3, COV_TRUE)>>,
                  1, 1, {COV_TRUE}, StakeData(3, 4, 5), TRUE),
      \* a stake whose first output is Mel
      Transaction(6, "Stake", <<CoinID(0, 2)>>, <<CoinData(Mel, 3, COV_TRUE)>>,
                  1, 1, {COV_TRUE}, StakeData(3, 4, 3), TRUE),
      \* the same with a payload that is no StakeDoc
      Transaction(7, "Stake", <<CoinID(0, 2)>>, <<CoinData(Mel, 3, COV_TRUE)>>,
                  1, 1, {COV_TRUE}, NoData, TRUE),
      Transaction(8, "DoscMint", <<CoinID(0, 2)>>,
                  <<CoinData(Erg, 2, COV_TRUE), CoinData(Mel, 3, COV_TRUE)>>,
                  1, 1, {COV_TRUE}, MintData(3, TRUE, FALSE), TRUE),
      \* two inputs locked by the same position-reading covenant
      Transaction(9, "Normal", <<CoinID(0, 3), CoinID(0, 4)>>,
                  <<CoinData(Mel, 3, COV_TRUE)>>,
                  1, 1, {COV_IDX0}, NoData, TRUE),
      \* spends an output of the staking transaction 20
      Transaction(10, "Normal", <<CoinID(20, 1)>>, <<CoinData(Mel, 1, COV_TRUE)>>,
                  1, 1, {COV_TRUE}, NoData, TRUE),
      \* spends 5 Sym and has no Sym output
      Transaction(11, "Normal", <<CoinID(0, 3), CoinID(0, 1)>>,
                  <<CoinData(Mel, 1, COV_TRUE)>>,
                  1, 1, {COV_TRUE, COV_IDX0}, NoData, TRUE),
      \* carries no covenant for its second input
      Transaction(12, "Normal", <<CoinID(0, 2), CoinID(0, 4)>>,
                  <<CoinData(Mel, 5, COV_TRUE)>>,
                  1, 1, {COV_TRUE}, NoData, TRUE),
      \* its second input's covenant denies
      Transaction(13, "Normal", <<CoinID(0, 2), CoinID(0, 4)>>,
                  <<CoinData(Mel, 5, COV_TRUE)>>,
                  1, 1, {COV_TRUE, COV_IDX0}, NoData, TRUE),
      \* names c0 twice
      Transaction(14, "Normal", <<CoinID(0, 0), CoinID(0, 0)>>,
                  <<CoinData(Mel, 19, COV_TRUE)>>,
                  1, 1, {COV_TRUE}, NoData, TRUE) }

\* the batches of n transactions of the set txs
RECURSIVE BatchesOver(_, _)
BatchesOver(txs, n) ==
    IF n = 0 THEN {<<>>}
    ELSE {Append(b, tx) : b \in BatchesOver(txs, n - 1), tx \in txs}

BatchesOfLen(n) == BatchesOver(TxUniverse, n)

\* the batches of 1..MaxBatch transactions
Batches == UNION {BatchesOfLen(n) : n \in 1..MaxBatch}

\* network and height of the states the model starts from
Envs ==
    { [network |-> "Mainnet", height |-> 400000],
      [network |-> "Testnet", height |-> 600000],
      [network |-> "Custom02", height |-> 400000] }

\* A State after earlier blocks: five coins of transaction 0, and the two
\* outputs of a staking transaction 20 whose StakeDoc (epochs 3..4) is in the
\* stake store.
InitState(env) ==
    LET h == env.height
    IN  [network |-> env.network,
         height |-> h,
         fee_multiplier |-> 1,
         last_dosc_speed |-> 1,
         coins |->
            (CoinID(0, 0) :> CoinDataHeight(CoinData(Mel, 10, COV_TRUE), h - 100)) @@
            (CoinID(0, 1) :> CoinDataHeight(CoinData(Sym, 5, COV_TRUE), h - 100)) @@
            (CoinID(0, 2) :> CoinDataHeight(CoinData(Mel, 4, COV_TRUE), h - 2)) @@
            (CoinID(0, 3) :> CoinDataHeight(CoinData(Mel, 2, COV_IDX0), h - 1)) @@
            (CoinID(0, 4) :> CoinDataHeight(CoinData(Mel, 2, COV_IDX0), h - 1)) @@
            (CoinID(20, 0) :> CoinDataHeight(CoinData(Sym, 5, COV_TRUE), h - 100)) @@
            (CoinID(20, 1) :> CoinDataHeight(CoinData(Mel, 2, COV_TRUE), h - 100)),
         transactions |-> EmptyMap,
         stakes |-> (20 :> StakeDoc(3, 5, 5)),
         fee_pool |-> 0,
         tips |-> 0,
         dosc_speed |-> 1]

----------------------------------------------------------------------------
(* The state machine *)

\* err_at while no error has been raised
Nowhere == [pass |-> "none", pos |-> 0]

\* the caller holds one of the given States and no handle
AppIdle(states) ==
    /\ state \in states
    /\ handle = NoHandle
    /\ txx = <<>>
    /\ pc = "idle"
    /\ i = 1
    /\ done = {}
    /\ tasks = <<>>
    /\ err = Ok
    /\ err_at = Nowhere
    /\ prior = state
    /\ applied = 0

InitWith(states) == AppIdle(states) /\ ex = NoExecutor

Init == InitWith({InitState(env) : env \in Envs})

\* Fail, flushing the overlay of the failed batch into the State
FailFlushes(e, k) ==
    /\ pc' = IF e = Panic THEN "panic" ELSE "failed"
    /\ err' = e
    /\ err_at' = [pass |-> pc, pos |-> k]
    /\ state' = commit(state, handle)
    /\ handle' = NoHandle
    /\ i' = 1
    /\ done' = {}
    /\ tasks' = <<>>
    /\ UNCHANGED <<txx, prior, applied, ex>>

\* apply_tx_batch returns Err(e) (or panics), raised for the transaction at
\* position k: self is dropped
Fail(e, k) ==
    /\ pc' = IF e = Panic THEN "panic" ELSE "failed"
    /\ err' = e
    /\ err_at' = [pass |-> pc, pos |-> k]
    /\ handle' = NoHandle
    /\ i' = 1
    /\ done' = {}
    /\ tasks' = <<>>
    /\ UNCHANGED <<state, txx, prior, applied, ex>>

\* the caller is back with the State: the failed handle is gone, or the
\* committed one has been consumed
Return ==
    /\ pc \in {"failed", "committed"}
    /\ pc' = "idle"
    /\ txx' = <<>>
    /\ tasks' = <<>>
    /\ handle' = NoHandle
    /\ err' = Ok
    /\ err_at' = Nowhere
    /\ prior' = state
    /\ UNCHANGED <<state, i, done, applied, ex>>

\* StateHandle::new(state) and the call of apply_tx_batch(txx), with txx one
\* of the given batches
BeginFrom(batches) ==
    /\ pc = "idle"
    /\ \E batch \in batches :
        /\ applied + Len(batch) <= MaxTxs
        /\ txx' = batch
        /\ tasks' = [k \in 1..Len(batch) |-> new_task]
    /\ handle' = new(state)
    /\ prior' = state
    /\ pc' = "admit"
    /\ i' = 1
    /\ done' = {}
    /\ err' = Ok
    /\ err_at' = Nowhere
    /\ UNCHANGED <<state, applied, ex>>

Begin == BeginFrom(Batches)

\* one iteration of the admission loop (lines 66-93)
Admit ==
    /\ pc = "admit"
    /\ LET a == admit_tx(state, handle, txx[i])
       IN  IF a.r # Ok THEN Fail(a.r, i)
           ELSE /\ handle' = a.h
                /\ i' = IF i = Len(txx) THEN 1 ELSE i + 1
                /\ pc' = IF i = Len(txx) THEN "special" ELSE "admit"
                /\ UNCHANGED <<state, txx, done, tasks, err, err_at, prior, applied, ex>>

\* the task of the special-rule pass for the transaction at position k
Special ==
    /\ pc = "special"
    /\ \E k \in (1..Len(txx)) \ done :
        /\ is_special(txx[k])
        /\ LET s == apply_tx_special(state, handle, txx[k])
           IN  IF s.r # Ok THEN Fail(s.r, k)
               ELSE /\ handle' = s.h
                    /\ done' = done \cup {k}
                    /\ UNCHANGED <<state, txx, pc, i, tasks, err, err_at, prior, applied, ex>>

\* collect() of the special-rule pass: every task has returned Ok
JoinSpecial ==
    /\ pc = "special"
    /\ \A k \in 1..Len(txx) : is_special(txx[k]) => k \in done
    /\ pc' = "outputs"
    /\ done' = {}
    /\ UNCHANGED <<state, handle, txx, i, tasks, err, err_at, prior, applied, ex>>

\* the task of the output pass for the transaction at position k
Output ==
    /\ pc = "outputs"
    /\ \E k \in (1..Len(txx)) \ done :
        /\ handle' = apply_tx_outputs(state, handle, txx[k])
        /\ done' = done \cup {k}
    /\ UNCHANGED <<state, txx, pc, i, tasks, err, err_at, prior, applied, ex>>

\* JoinOutputs, without waiting for the output tasks
JoinOutputsEarly ==
    /\ pc = "outputs"
    /\ pc' = "inputs"
    /\ done' = {}
    /\ UNCHANGED <<state, handle, txx, i, tasks, err, err_at, prior, applied, ex>>

\* the end of for_each: every output task has run
JoinOutputs ==
    /\ pc = "outputs"
    /\ done = 1..Len(txx)
    /\ pc' = "inputs"
    /\ done' = {}
    /\ UNCHANGED <<state, handle, txx, i, tasks, err, err_at, prior, applied, ex>>

\* one step of the input task of the transaction at position k
Input ==
    /\ pc = "inputs"
    /\ \E k \in 1..Len(txx) :
        /\ tasks[k].pc # "done"
        /\ LET s == input_step(state, handle, txx[k], tasks[k])
           IN  IF s.r # Ok THEN Fail(s.r, k)
               ELSE /\ handle' = s.h
                    /\ tasks' = [tasks EXCEPT ![k] = s.t]
                    /\ UNCHANGED <<state, txx, pc, i, done, err, err_at, prior, applied, ex>>

\* collect() of the input pass: apply_tx_batch returns Ok(self)
JoinInputs ==
    /\ pc = "inputs"
    /\ \A k \in 1..Len(txx) : tasks[k].pc = "done"
    /\ pc' = "ok"
    /\ UNCHANGED <<state, handle, txx, i, done, tasks, err, err_at, prior, applied, ex>>

\* commit(self)
Commit ==
    /\ pc = "ok"
    /\ state' = commit(state, handle)
    /\ pc' = "committed"
    /\ applied' = applied + Len(txx)
    /\ UNCHANGED <<handle, txx, i, done, tasks, err, err_at, prior, ex>>

Next ==
    \/ Begin
    \/ Return
    \/ Admit
    \/ Special
    \/ JoinSpecial
    \/ Output
    \/ JoinOutputs
    \/ Input
    \/ JoinInputs
    \/ Commit

Spec == Init /\ [][Next]_vars

----------------------------------------------------------------------------
(* apply_tx_batch as a function: the schedule that runs the tasks of each   *)
(* parallel pass one after the other, in batch order                         *)

RECURSIVE admit_from(_, _, _, _)
admit_from(st, h, batch, k) ==
    IF k > Len(batch) THEN [h |-> h, r |-> Ok]
    ELSE LET a == admit_tx(st, h, batch[k])
         IN  IF a.r # Ok THEN a ELSE admit_from(st, a.h, batch, k + 1)

RECURSIVE special_from(_, _, _, _)
special_from(st, h, batch, k) ==
    IF k > Len(batch) THEN [h |-> h, r |-> Ok]
    ELSE IF ~is_special(batch[k]) THEN special_from(st, h, batch, k + 1)
    ELSE LET s == apply_tx_special(st, h, batch[k])
         IN  IF s.r # Ok THEN s ELSE special_from(st, s.h, batch, k + 1)

RECURSIVE outputs_from(_, _, _, _)
outputs_from(st, h, batch, k) ==
    IF k > Len(batch) THEN h
    ELSE outputs_from(st, apply_tx_outputs(st, h, batch[k]), batch, k + 1)

RECURSIVE inputs_from(_, _, _, _)
inputs_from(st, h, batch, k) ==
    IF k > Len(batch) THEN [h |-> h, r |-> Ok]
    ELSE LET s == run_inputs(st, h, batch[k], new_task)
         IN  IF s.r # Ok THEN [h |-> s.h, r |-> s.r]
             ELSE inputs_from(st, s.h, batch, k + 1)

\* StateHandle::new(st).apply_tx_batch(batch) with the tasks in batch order
apply_tx_batch_in_order(st, batch) ==
    LET a == admit_from(st, new(st), batch, 1)
    IN  IF a.r # Ok THEN a
        ELSE LET s == special_from(st, a.h, batch, 1)
             IN  IF s.r # Ok THEN s
                 ELSE inputs_from(st, outputs_from(st, s.h, batch, 1), batch, 1)

RECURSIVE one_by_one(_, _, _)
\* the first n transactions of the batch, each applied alone and committed
one_by_one(st, batch, n) ==
    IF n = 0 THEN [st |-> st, r |-> Ok]
    ELSE LET p == one_by_one(st, batch, n - 1)
         IN  IF p.r # Ok THEN p
             ELSE LET b == apply_tx_batch_in_order(p.st, <<batch[n]>>)
                  IN  IF b.r # Ok THEN [st |-> p.st, r |-> b.r]
                      ELSE [st |-> commit(p.st, b.h), r |-> Ok]

----------------------------------------------------------------------------
(* What the batch in hand refers to *)

Positions == 1..Len(txx)

\* the input slots of the batch: <<position in the batch, position in tx.inputs>>
InputSlots == {<<k, j>> \in Positions \X (1..4) : j <= Len(txx[k].inputs)}

\* whether some transaction of the batch creates coin_id in the output pass
CreatedInBatch(coin_id) ==
    \E k \in Positions :
        /\ hash_nosigs(txx[k]) = coin_id.txhash
        /\ coin_id.index < Len(txx[k].outputs)
        /\ txx[k].outputs[coin_id.index + 1].covhash # coin_destroy

\* The CoinDataHeight the input pass reads for coin_id while it is present:
\* the one the output pass of this batch wrote, else the store's.
CoinRead(coin_id) ==
    IF CreatedInBatch(coin_id)
    THEN LET tx == CHOOSE tx \in {txx[k] : k \in Positions} :
                        hash_nosigs(tx) = coin_id.txhash
             out == tx.outputs[coin_id.index + 1]
         IN  CoinDataHeight(
                CoinData(IF out.denom = NewCoin THEN Custom(hash_nosigs(tx)) ELSE out.denom,
                         out.value, out.covhash),
                prior.height)
    ELSE prior.coins[coin_id]

\* no two input slots of the batch name the same coin
InputsDistinct ==
    \A s1 \in InputSlots, s2 \in InputSlots :
        s1 # s2 => txx[s1[1]].inputs[s1[2]] # txx[s2[1]].inputs[s2[2]]

----------------------------------------------------------------------------
(* C1 *)

\* C1: apply_tx_batch never modifies the State: from the creation of the
\* handle until commit, and after a failure at any pass, the State is what it
\* was when the handle was created; a failed call leaves no handle behind, and
\* the only write is commit's, of the handle apply_tx_batch returned.
C1_StateUntouched ==
    /\ pc \in {"idle", "admit", "special", "outputs", "inputs", "ok", "failed", "panic"}
          => state = prior
    /\ pc \in {"failed", "panic"} => handle = NoHandle
    /\ pc = "committed" => state = commit(prior, handle)

\* a batch that failed in the input pass, after its outputs were applied to
\* the overlay, on a State that an earlier commit has written
C1_Witness ==
    /\ pc = "failed"
    /\ err_at.pass = "inputs"
    /\ applied > 0
    /\ state = prior

----------------------------------------------------------------------------
(* C2 *)

\* C2: no successful batch spends the same coin twice: when apply_tx_batch
\* has returned Ok, no two input slots of the batch name the same CoinID.
C2_NoDoubleSpend == pc \in {"ok", "committed"} => InputsDistinct

----------------------------------------------------------------------------
(* C3 *)

\* what the input task at position k accumulated for denomination d
InValue(k, d) == IF d \in DOMAIN tasks[k].in_coins THEN tasks[k].in_coins[d] ELSE 0

\* the transaction's total output in denomination d
OutValue(tx, d) == IF d \in DOMAIN total_outputs(tx) THEN total_outputs(tx)[d] ELSE 0

\* C3: in a successful batch every transaction that is not a Faucet spends, in
\* every denomination but NewCoin, exactly its total outputs; a DoscMint is
\* exempt for Erg only.
C3_Conservation ==
    pc = "ok" =>
        \A k \in Positions :
            \A d \in (DOMAIN tasks[k].in_coins) \cup (DOMAIN total_outputs(txx[k])) :
                (/\ txx[k].kind # "Faucet"
                 /\ d # NewCoin
                 /\ ~(txx[k].kind = "DoscMint" /\ d = Erg))
                    => InValue(k, d) = OutValue(txx[k], d)

----------------------------------------------------------------------------
(* C4 *)

\* the batch in hand, applied one transaction at a time to the prior State
OneByOne == one_by_one(prior, txx, Len(txx))

\* C4 as stated, on the batches in which no coin is named twice: after a
\* successful batch and its commit, applying each transaction alone in batch
\* order, committing after each, succeeds as well and gives the same State.
C4_BatchingTransparent ==
    (pc = "committed" /\ InputsDistinct) => (OneByOne.r = Ok /\ state = OneByOne.st)

\* C4 amended: after a successful batch and its commit, if applying each
\* transaction alone in batch order, committing after each, succeeds too,
\* then it gives the same State.
C4_SameStateWhenBothSucceed ==
    (pc = "committed" /\ OneByOne.r = Ok) => state = OneByOne.st

\* a committed batch of two different transactions that also succeed one by one
C4_Witness ==
    /\ pc = "committed"
    /\ Len(txx) = 2
    /\ txx[1] # txx[2]
    /\ OneByOne.r = Ok
    /\ state # prior

----------------------------------------------------------------------------
(* C5 *)

\* the outcome of the batch in hand under the in-order schedule
InOrder == apply_tx_batch_in_order(prior, txx)

\* C5: whatever the schedule, apply_tx_batch ends as it does under the
\* in-order schedule: it fails when that one fails, and when it succeeds it
\* returns the same overlay.
C5_Deterministic ==
    /\ pc = "ok" => (InOrder.r = Ok /\ handle = InOrder.h)
    /\ pc = "failed" => (InOrder.r # Ok /\ InOrder.r # Panic)

----------------------------------------------------------------------------
(* C6 *)

HasCoin(coin_id) == CreatedInBatch(coin_id) \/ coin_id \in DOMAIN prior.coins

\* the covhash of the coin input slot <<k, j>> spends
SlotCovhash(k, j) == CoinRead(txx[k].inputs[j]).coin_data.covhash

\* the first input of transaction k whose coin has the covhash of input j's
FirstWithCovhash(k, j) ==
    CHOOSE j1 \in 1..j :
        /\ SlotCovhash(k, j1) = SlotCovhash(k, j)
        /\ \A j2 \in 1..(j1 - 1) : SlotCovhash(k, j2) # SlotCovhash(k, j)

\* whether the covenant of input j's coin accepts in the spend context of input j1
Authorizes(k, j, j1) ==
    check(SlotCovhash(k, j), txx[k], txx[k].inputs[j1], CoinRead(txx[k].inputs[j1]), j1 - 1)

\* C6 as stated: in a successful batch every input's transaction carries the
\* covenant of the coin, and that covenant accepts in the spend context of
\* that very input.
C6_EveryInputAuthorized ==
    pc = "ok" =>
        \A s \in InputSlots :
            /\ SlotCovhash(s[1], s[2]) \in covenants_as_map(txx[s[1]])
            /\ Authorizes(s[1], s[2], s[2])

\* C6 amended: in a successful batch every input's transaction carries the
\* covenant of the coin, and that covenant accepts in the spend context of the
\* first input of the transaction whose coin has that covhash; a batch that
\* fails with NonexistentScript(h) has an input whose coin has covhash h and
\* whose transaction carries no covenant h, and one that fails with
\* ViolatesScript(h) has an input for which the covenant h it carries denies.
C6_FirstInputAuthorized ==
    /\ pc = "ok" =>
        \A s \in InputSlots :
            /\ SlotCovhash(s[1], s[2]) \in covenants_as_map(txx[s[1]])
            /\ Authorizes(s[1], s[2], FirstWithCovhash(s[1], s[2]))
    /\ (pc = "failed" /\ err.kind = "NonexistentScript") =>
        /\ err_at.pass = "inputs"
        /\ \E j \in 1..Len(txx[err_at.pos].inputs) :
            /\ HasCoin(txx[err_at.pos].inputs[j])
            /\ SlotCovhash(err_at.pos, j) = err.n
            /\ err.n \notin covenants_as_map(txx[err_at.pos])
    /\ (pc = "failed" /\ err.kind = "ViolatesScript") =>
        /\ err_at.pass = "inputs"
        /\ \E j \in 1..Len(txx[err_at.pos].inputs) :
            /\ HasCoin(txx[err_at.pos].inputs[j])
            /\ SlotCovhash(err_at.pos, j) = err.n
            /\ err.n \in covenants_as_map(txx[err_at.pos])
            /\ ~Authorizes(err_at.pos, j, j)

\* a successful batch with a transaction whose two inputs share a covhash
C6_Witness ==
    /\ pc = "ok"
    /\ \E s \in InputSlots : FirstWithCovhash(s[1], s[2]) # s[2]

----------------------------------------------------------------------------
(* C7 *)

\* a StakeDoc whose validity range holds the epoch
Active(sdoc, e) == sdoc.e_start <= e /\ e < sdoc.e_post_end

\* C7: no successful batch has an input whose origin transaction hash has a
\* StakeDoc, in the stake store or in the overlay, that is active in the
\* current epoch.
C7_ActiveStakeLocks ==
    pc = "ok" =>
        \A s \in InputSlots :
            LET origin == txx[s[1]].inputs[s[2]].txhash
            IN  /\ origin \in DOMAIN prior.stakes
                    => ~Active(prior.stakes[origin], epoch(prior.height))
                /\ origin \in DOMAIN handle.stakes_cache
                    => ~Active(handle.stakes_cache[origin], epoch(prior.height))

----------------------------------------------------------------------------
(* C8 *)

\* the Faucet transaction at position k repeats one admitted earlier in the
\* batch or one whose marker an earlier commit wrote to the store
FaucetReplay(k) ==
    /\ txx[k].kind = "Faucet"
    /\ \/ faucet_dedup_pseudocoin(hash_nosigs(txx[k])) \in DOMAIN prior.coins
       \/ \E k0 \in 1..(k - 1) :
            txx[k0].kind = "Faucet" /\ hash_nosigs(txx[k0]) = hash_nosigs(txx[k])

\* C8: the admission pass never gets past a replayed Faucet transaction: when
\* it reaches one the batch fails with DuplicateTx; and commit leaves the
\* marker pseudo-coin of every Faucet transaction of the batch in the store.
C8_FaucetReplayRejected ==
    /\ \A k \in Positions :
        FaucetReplay(k) =>
            /\ pc = "admit" => i <= k
            /\ pc \notin {"special", "outputs", "inputs", "ok", "committed", "panic"}
            /\ pc = "failed" =>
                /\ err_at.pass = "admit"
                /\ err_at.pos <= k
                /\ err_at.pos = k => err = DuplicateTx
    /\ pc = "committed" =>
        \A k \in Positions :
            txx[k].kind = "Faucet" =>
                MapGet(state.coins, faucet_dedup_pseudocoin(hash_nosigs(txx[k])))
                    = Some(faucet_marker)

\* a Faucet transaction rejected because an earlier batch with it was committed
C8_Witness ==
    /\ pc = "failed"
    /\ err = DuplicateTx
    /\ Len(txx) = 1
    /\ faucet_dedup_pseudocoin(hash_nosigs(txx[1])) \in DOMAIN prior.coins

----------------------------------------------------------------------------
(* C9 *)

\* whether sdoc under key txhash is what a Stake transaction of the batch
\* carries and meets the admission conditions
Admissible(txhash, sdoc) ==
    \E k \in Positions :
        /\ txx[k].kind = "Stake"
        /\ hash_nosigs(txx[k]) = txhash
        /\ txx[k].data.stake = Some(sdoc)
        /\ sdoc.e_start > prior.height \div STAKE_EPOCH
        /\ sdoc.e_post_end > sdoc.e_start
        /\ Len(txx[k].outputs) > 0
        /\ txx[k].outputs[1].denom = Sym
        /\ sdoc.syms_staked = txx[k].outputs[1].value

----------------------------------------------------------------------------
(* C10 *)

\* the state runs the old stake rules
OldRules == prior.network \in {"Mainnet", "Testnet"} /\ prior.height < 500000

\* the transaction at position k is a Stake whose first output is not Sym
StakeNotSym(k) ==
    /\ txx[k].kind = "Stake"
    /\ Len(txx[k].outputs) > 0
    /\ txx[k].outputs[1].denom # Sym

\* the stake validator accepted the transaction at position k without a word:
\* it is not the one that failed the special-rule pass, and no StakeDoc is
\* registered under its hash
AcceptedUnregistered(k) ==
    /\ pc \in {"failed", "panic"} => ~(err_at.pass = "special" /\ err_at.pos = k)
    /\ hash_nosigs(txx[k]) \notin (DOMAIN handle.stakes_cache) \ (DOMAIN prior.stakes)
    /\ pc = "committed" =>
        hash_nosigs(txx[k]) \notin (DOMAIN state.stakes) \ (DOMAIN prior.stakes)

\* the batch does not get past the special-rule task of position k
Rejected(k) ==
    /\ pc \notin {"outputs", "inputs", "ok", "committed"}
    /\ pc = "special" => k \notin done

\* C10 as stated: a Stake transaction whose first output is not Sym is
\* rejected, unless the old rules apply, and then the validator accepts it and
\* registers nothing.
C10_NonSymStake ==
    \A k \in Positions :
        StakeNotSym(k) =>
            IF OldRules THEN AcceptedUnregistered(k) ELSE Rejected(k)

\* C10 amended: the same, where under the old rules the validator accepts the
\* transaction provided that its payload decodes as a StakeDoc.
C10_NonSymStakeDecodable ==
    \A k \in Positions :
        StakeNotSym(k) =>
            IF OldRules
            THEN IsSome(txx[k].data.stake) => AcceptedUnregistered(k)
            ELSE Rejected(k)

\* under the old rules, a successful batch with a Stake whose first output is Mel
C10_Witness ==
    /\ pc = "ok"
    /\ OldRules
    /\ \E k \in Positions : StakeNotSym(k)

----------------------------------------------------------------------------
(* Fee accounting: States whose pools are empty or close to u128::MAX, under *)
(* two fee multipliers, and transactions that pay too little, exactly the    *)
(* minimum, or a tip                                                         *)

FeeTxUniverse ==
    { \* pays 3: a tip of 2 under multiplier 1, of 1 under multiplier 2
      Transaction(31, "Normal", <<CoinID(0, 0)>>, <<CoinData(Mel, 7, COV_TRUE)>>,
                  3, 1, {COV_TRUE}, NoData, TRUE),
      \* pays 1: the minimum under multiplier 1, too little under multiplier 2
      Transaction(32, "Normal", <<CoinID(0, 2)>>, <<CoinData(Mel, 3, COV_TRUE)>>,
                  1, 1, {COV_TRUE}, NoData, TRUE),
      \* weight 2 and fee 2: too little under multiplier 2
      Transaction(33, "Faucet", <<>>, <<CoinData(Mel, 3, COV_TRUE)>>,
                  2, 2, {}, NoData, TRUE),
      \* a stake paying 2
      Transaction(34, "Stake", <<CoinID(0, 1), CoinID(0, 2)>>,
                  <<CoinData(Sym, 5, COV_TRUE), CoinData(Mel, 2, COV_TRUE)>>,
                  2, 1, {COV_TRUE}, StakeData(3, 4, 5), TRUE) }

FeeBatches == UNION {BatchesOver(FeeTxUniverse, n) : n \in 1..MaxBatch}

\* the States of the fee runs: a custom network, with the pools and the
\* multiplier as given
FeeState(fee_multiplier, fee_pool, tips) ==
    [InitState([network |-> "Custom02", height |-> 400000]) EXCEPT
        !.fee_multiplier = fee_multiplier, !.fee_pool = fee_pool, !.tips = tips]

FeeStates ==
    {FeeState(m, p, t) : m \in {1, 2}, p \in {0, U128_MAX - 2}, t \in {0, U128_MAX - 1}}

InitFees == InitWith(FeeStates)

BeginFees == BeginFrom(FeeBatches)

NextFees ==
    \/ BeginFees
    \/ Return
    \/ Admit
    \/ Special
    \/ JoinSpecial
    \/ Output
    \/ JoinOutputs
    \/ Input
    \/ JoinInputs
    \/ Commit

SpecFees == InitFees /\ [][NextFees]_vars

----------------------------------------------------------------------------
(* C11 *)

\* min_fee of the transaction at position k
MinFee(k) == base_fee(txx[k], prior.fee_multiplier)

RECURSIVE SumMinFee(_)
\* the summed min_fee of the first n transactions of the batch
SumMinFee(n) == IF n = 0 THEN 0 ELSE SumMinFee(n - 1) + MinFee(n)

RECURSIVE SumTips(_)
\* the summed fee - min_fee of the first n transactions of the batch
SumTips(n) == IF n = 0 THEN 0 ELSE SumTips(n - 1) + (txx[n].fee - MinFee(n))

\* min(2^width - 1, a)
Capped(a) == IF a > U128_MAX THEN U128_MAX ELSE a

\* how many transactions of the batch the admission loop has been through
Admitted ==
    CASE pc = "admit" -> i - 1
      [] pc \in {"special", "outputs", "inputs", "ok", "committed"} -> Len(txx)
      [] OTHER -> 0

\* the admission loop reaches the fee test for the transaction at position k:
\* none of the tests that come before it rejects the transaction
ReachesFeeTest(k) ==
    /\ is_well_formed(txx[k])
    /\ txx[k].kind = "Faucet" =>
        /\ prior.network # "Mainnet"
        /\ ~FaucetReplay(k)

\* C11: a transaction whose fee is below min_fee is never admitted, and when
\* the admission loop rejects it at the fee test the error is
\* InsufficientFees(min_fee); InsufficientFees is raised for no other
\* transaction; after n admitted transactions the handle's fee pool is
\* min(u128::MAX, old fee_pool + their summed min_fee) and its tips are
\* min(u128::MAX, old tips + their summed fee - min_fee), and these are what
\* commit writes to the store; no value exceeds u128::MAX.
C11_FeeAccounting ==
    /\ \A k \in Positions :
        txx[k].fee < MinFee(k) =>
            /\ pc = "admit" => i <= k
            /\ pc \notin {"special", "outputs", "inputs", "ok", "committed", "panic"}
            /\ pc = "failed" =>
                /\ err_at.pass = "admit"
                /\ err_at.pos <= k
                /\ (err_at.pos = k /\ ReachesFeeTest(k)) => err = InsufficientFees(MinFee(k))
    /\ (pc = "failed" /\ err.kind = "InsufficientFees") =>
        /\ err_at.pass = "admit"
        /\ txx[err_at.pos].fee < MinFee(err_at.pos)
        /\ err.n = MinFee(err_at.pos)
    /\ pc \in {"admit", "special", "outputs", "inputs", "ok", "committed"} =>
        /\ handle.fee_pool_cache = Capped(prior.fee_pool + SumMinFee(Admitted))
        /\ handle.tips_cache = Capped(prior.tips + SumTips(Admitted))
    /\ pc = "committed" =>
        /\ state.fee_pool = Capped(prior.fee_pool + SumMinFee(Len(txx)))
        /\ state.tips = Capped(prior.tips + SumTips(Len(txx)))
    /\ state.fee_pool <= U128_MAX /\ state.tips <= U128_MAX
    /\ handle.fee_pool_cache <= U128_MAX /\ handle.tips_cache <= U128_MAX

\* a committed batch of two transactions whose fees saturate the fee pool
\* while the tips, starting from zero, do not
C11_Witness ==
    /\ pc = "committed"
    /\ Len(txx) = 2
    /\ prior.fee_pool + SumMinFee(2) > U128_MAX
    /\ state.fee_pool = U128_MAX
    /\ prior.tips = 0
    /\ state.tips = SumTips(2)
    /\ state.tips > 0

----------------------------------------------------------------------------
(* Proof-of-work mints: States on three networks, with a recorded speed of   *)
(* 1 or 2, and DoscMint transactions over an old coin and a young coin       *)

MintTxUniverse ==
    { \* young coin, difficulty 3, a small claim
      Transaction(41, "DoscMint", <<CoinID(0, 2)>>,
                  <<CoinData(Erg, 2, COV_TRUE), CoinData(Mel, 3, COV_TRUE)>>,
                  1, 1, {COV_TRUE}, MintData(3, TRUE, FALSE), TRUE),
      \* old coin, difficulty 7, a proof under the second hash only
      Transaction(42, "DoscMint", <<CoinID(0, 0)>>,
                  <<CoinData(Erg, 5, COV_TRUE), CoinData(Mel, 9, COV_TRUE)>>,
                  1, 1, {COV_TRUE}, MintData(7, FALSE, TRUE), TRUE),
      \* old coin, difficulty 3: speed 0 and reward 0, claims 1
      Transaction(43, "DoscMint", <<CoinID(0, 0)>>,
                  <<CoinData(Erg, 1, COV_TRUE), CoinData(Mel, 9, COV_TRUE)>>,
                  1, 1, {COV_TRUE}, MintData(3, TRUE, FALSE), TRUE),
      \* young coin, a proof that verifies under neither hash
      Transaction(44, "DoscMint", <<CoinID(0, 2)>>,
                  <<CoinData(Erg, 1, COV_TRUE), CoinData(Mel, 3, COV_TRUE)>>,
                  1, 1, {COV_TRUE}, MintData(3, FALSE, FALSE), TRUE),
      \* old coin, a proof that verifies under neither hash
      Transaction(45, "DoscMint", <<CoinID(0, 0)>>,
                  <<CoinData(Erg, 1, COV_TRUE), CoinData(Mel, 9, COV_TRUE)>>,
                  1, 1, {COV_TRUE}, MintData(7, FALSE, FALSE), TRUE),
      \* young coin, difficulty 1: claims 6
      Transaction(46, "DoscMint", <<CoinID(0, 2)>>,
                  <<CoinData(Erg, 6, COV_TRUE), CoinData(Mel, 3, COV_TRUE)>>,
                  1, 1, {COV_TRUE}, MintData(1, TRUE, FALSE), TRUE),
      \* young coin, difficulty 1: claims 7
      Transaction(47, "DoscMint", <<CoinID(0, 2)>>,
                  <<CoinData(Erg, 7, COV_TRUE), CoinData(Mel, 3, COV_TRUE)>>,
                  1, 1, {COV_TRUE}, MintData(1, TRUE, FALSE), TRUE) }

MintBatches == UNION {BatchesOver(MintTxUniverse, n) : n \in 1..MaxBatch}

\* the States of the mint runs: the previous block recorded the given speed
MintStates ==
    {[InitState(env) EXCEPT !.last_dosc_speed = sp] : env \in Envs, sp \in {1, 2}}

InitMint == InitWith(MintStates)

BeginMint == BeginFrom(MintBatches)

NextMint ==
    \/ BeginMint
    \/ Return
    \/ Admit
    \/ Special
    \/ JoinSpecial
    \/ Output
    \/ JoinOutputs
    \/ Input
    \/ JoinInputs
    \/ Commit

SpecMint == InitMint /\ [][NextMint]_vars

----------------------------------------------------------------------------
(* C12 *)

\* the transaction at position k is a DoscMint whose input coin is in the
\* store, sealed in an earlier block
MintWithCoin(k) ==
    /\ txx[k].kind = "DoscMint"
    /\ Len(txx[k].inputs) > 0
    /\ txx[k].inputs[1] \in DOMAIN prior.coins
    /\ prior.coins[txx[k].inputs[1]].height < prior.height

\* age of the coin the DoscMint at position k spends
CoinAge(k) == prior.height - prior.coins[txx[k].inputs[1]].height

\* its payload decodes as (difficulty, proof)
MintDecodes(k) == IsSome(txx[k].data.mint)

\* the proof verifies under one of the two hashes
ProofVerifies(k) ==
    Unwrap(txx[k].data.mint).legacy \/ Unwrap(txx[k].data.mint).tip910

\* the measured speed, 2^difficulty / coin age
MySpeed(k) == (2 ^ Unwrap(txx[k].data.mint).difficulty) \div CoinAge(k)

\* the reward computed from the measured speed and the speed the previous
\* block recorded
Reward(k) ==
    dosc_to_erg(prior.height,
                calculate_reward(MySpeed(k), prior.last_dosc_speed,
                                 Unwrap(txx[k].data.mint).difficulty,
                                 ~Unwrap(txx[k].data.mint).legacy))

TooYoung(k) == prior.network = "Mainnet" /\ CoinAge(k) < 100

\* one of the three reasons of the claim holds for the DoscMint at position k
MintRefused(k) ==
    /\ MintWithCoin(k)
    /\ \/ TooYoung(k)
       \/ MintDecodes(k) /\ ~ProofVerifies(k)
       \/ MintDecodes(k) /\ ProofVerifies(k) /\ OutValue(txx[k], Erg) > Reward(k)

\* C12: in a successful batch every DoscMint transaction spends a coin of
\* the store, carries a proof that verifies, and outputs at most its reward
\* in Erg; a DoscMint that claims more, or whose proof verifies under neither
\* hash, or whose coin is younger than 100 blocks on Mainnet, does not get
\* through the special-rule pass, and its task fails with InvalidMelPoW; the
\* special-rule task of a DoscMint fails with InvalidMelPoW for these reasons
\* only.
C12_MintReward ==
    /\ pc \in {"ok", "committed"} =>
        \A k \in Positions :
            txx[k].kind = "DoscMint" =>
                /\ MintWithCoin(k)
                /\ MintDecodes(k)
                /\ ProofVerifies(k)
                /\ OutValue(txx[k], Erg) <= Reward(k)
    /\ \A k \in Positions :
        MintRefused(k) =>
            /\ Rejected(k)
            /\ (pc = "failed" /\ err_at = [pass |-> "special", pos |-> k])
                    => err = InvalidMelPoW
    /\ (pc = "failed" /\ err_at.pass = "special" /\ err = InvalidMelPoW
            /\ txx[err_at.pos].kind = "DoscMint")
            => MintRefused(err_at.pos)

\* a committed DoscMint that claims exactly its reward
C12_Witness ==
    /\ pc = "committed"
    /\ \E k \in Positions :
        /\ txx[k].kind = "DoscMint"
        /\ MintWithCoin(k)
        /\ OutValue(txx[k], Erg) = Reward(k)
        /\ Reward(k) > 0

----------------------------------------------------------------------------
(* The VM run on its own, as run_ops of the opcode tests runs it: the        *)
(* programs are those of do_op_with_args (two pushes and an arithmetic       *)
(* opcode) over all words, and all short programs over a few instructions.   *)

Words == 0..U256_MAX

ArithOps == {Add, Sub, Mul, Div, Rem}

\* do_op_with_args(op, [x, y])
BinopPrograms == {<<PushI(x), PushI(y), o>> : x \in Words, y \in Words, o \in ArithOps}

FreeOps == {PushI(0), PushI(1), PushI(U256_MAX), Noop} \cup ArithOps

RECURSIVE ProgramsOver(_, _)
\* the programs of n instructions of the set ops
ProgramsOver(ops, n) ==
    IF n = 0 THEN {<<>>}
    ELSE {Append(prog, o) : prog \in ProgramsOver(ops, n - 1), o \in ops}

FreePrograms == UNION {ProgramsOver(FreeOps, n) : n \in 0..MaxProg}

VMPrograms == BinopPrograms \cup FreePrograms

InitVM ==
    /\ AppIdle({InitState([network |-> "Custom02", height |-> 400000])})
    /\ ex \in {Executor(ops) : ops \in VMPrograms}

\* while ex.pc() < ops.len() { if ex.step().is_none() { return None } }
Step ==
    /\ ex.pc >= 0
    /\ ~ex.halted
    /\ ex.pc < Len(ex.ops)
    /\ ex' = step(ex)
    /\ UNCHANGED <<state, handle, txx, pc, i, done, tasks, err, err_at, prior, applied>>

\* ex.stack.pop() at the end of run_ops
Pop ==
    /\ ex.pc = Len(ex.ops)
    /\ ~ex.halted
    /\ ex.result = None
    /\ Len(ex.stack) > 0
    /\ ex' = [ex EXCEPT !.result = Some(ex.stack[Len(ex.stack)]),
                        !.stack = SubSeq(@, 1, Len(@) - 1)]
    /\ UNCHANGED <<state, handle, txx, pc, i, done, tasks, err, err_at, prior, applied>>

NextVM ==
    \/ Step
    \/ Pop

SpecVM == InitVM /\ [][NextVM]_vars

----------------------------------------------------------------------------
(* C14 *)

\* the Executor runs PushI(x), PushI(y) and an arithmetic opcode
IsBinopRun ==
    /\ Len(ex.ops) = 3
    /\ ex.ops[1].op = "PushI"
    /\ ex.ops[2].op = "PushI"
    /\ ex.ops[3] \in ArithOps

\* the word pushed first
ArgX == ex.ops[1].n

\* the word pushed second, on top when the opcode runs
ArgY == ex.ops[2].n

\* the opcode divides by the word pushed first, which is zero
ZeroDivisor == ex.ops[3] \in {Div, Rem} /\ ArgX = 0

\* a modulo 2^width, for a >= -2^width
Wrapped(a) ==
    IF a < 0 THEN a + (U256_MAX + 1)
    ELSE IF a > U256_MAX THEN a - ((a \div (U256_MAX + 1)) * (U256_MAX + 1))
    ELSE a

\* what the opcode is to leave on the stack
Expected ==
    CASE ex.ops[3] = Add -> Wrapped(ArgY + ArgX)
      [] ex.ops[3] = Sub -> Wrapped(ArgY - ArgX)
      [] ex.ops[3] = Mul -> Wrapped(ArgY * ArgX)
      [] ex.ops[3] = Div -> ArgY \div ArgX
      [] ex.ops[3] = Rem -> ArgY - (ArgY \div ArgX) * ArgX

\* C14: with x pushed first and y second, Add leaves (y + x) mod 2^width,
\* Sub (y - x) mod 2^width, Mul (y * x) mod 2^width, Div y div x and Rem
\* y mod x when x is not zero; Div and Rem with x zero make step return
\* None: nothing is pushed and run_ops yields no value.
C14_Arithmetic ==
    IsBinopRun =>
        /\ ex.halted => (ex.pc = 2 /\ ZeroDivisor)
        /\ ex.pc = 3 => ~ZeroDivisor
        /\ (ex.pc = 2 /\ ~ex.halted) => step(ex).halted = ZeroDivisor
        /\ ex.halted => (ex.stack = <<ArgX, ArgY>> /\ ex.result = None)
        /\ (ex.pc = 3 /\ ex.result = None) => ex.stack = <<Expected>>
        /\ ex.result # None => (ex.result = Some(Expected) /\ ex.stack = <<>>)

\* 0 - 1 has run and given the largest word
C14_Witness ==
    /\ ex.ops = <<PushI(1), PushI(0), Sub>>
    /\ ex.result = Some(U256_MAX)

----------------------------------------------------------------------------
(* Covenant scripts at the applier: a coin locked by the covenant whose      *)
(* program the Executor holds, transactions that spend it, and the program   *)
(* run on its own next to the applier.                                       *)

CovPrograms ==
    { <<>>,
      <<Noop>>,
      <<Noop, Noop>>,
      <<PushI(1)>>,
      <<PushI(0)>>,
      <<Noop, PushI(1)>>,
      <<PushI(1), PushI(0)>>,
      <<PushI(0), PushI(1)>>,
      <<Add>>,
      <<PushI(1), Add>>,
      <<PushI(0), PushI(1), Div>>,
      <<PushI(0), PushI(1), Rem>>,
      <<PushI(1), PushI(0), Div>>,
      <<PushI(1), PushI(1), Sub>>,
      <<PushI(1), PushI(1), Add>> }

CovTxUniverse ==
    { \* spends the coin locked by COV_EX
      Transaction(51, "Normal", <<CoinID(0, 5)>>, <<CoinData(Mel, 3, COV_TRUE)>>,
                  1, 1, {COV_EX}, NoData, TRUE),
      \* spends c0 and then the coin locked by COV_EX
      Transaction(52, "Normal", <<CoinID(0, 0), CoinID(0, 5)>>,
                  <<CoinData(Mel, 13, COV_TRUE)>>,
                  1, 1, {COV_TRUE, COV_EX}, NoData, TRUE),
      \* a stake that spends no coin locked by COV_EX
      Transaction(53, "Stake", <<CoinID(0, 1), CoinID(0, 2)>>,
                  <<CoinData(Sym, 5, COV_TRUE), CoinData(Mel, 2, COV_TRUE)>>,
                  2, 1, {COV_TRUE}, StakeData(3, 4, 5), TRUE) }

CovBatches == UNION {BatchesOver(CovTxUniverse, n) : n \in 1..MaxBatch}

\* a State on a custom network with a coin of 4 Mel locked by COV_EX
CovState ==
    LET st == InitState([network |-> "Custom02", height |-> 400000])
    IN  [st EXCEPT !.coins =
            @ @@ (CoinID(0, 5) :> CoinDataHeight(CoinData(Mel, 4, COV_EX), st.height - 100))]

InitCov ==
    /\ AppIdle({CovState})
    /\ ex \in {Executor(ops) : ops \in CovPrograms}

BeginCov == BeginFrom(CovBatches)

NextCov ==
    \/ BeginCov
    \/ Return
    \/ Admit
    \/ Special
    \/ JoinSpecial
    \/ Output
    \/ JoinOutputs
    \/ Input
    \/ JoinInputs
    \/ Commit
    \/ Step
    \/ Pop

SpecCov == InitCov /\ [][NextCov]_vars

----------------------------------------------------------------------------
(* C13 *)

\* the Executor's run is over without a value that counts as true: a step
\* returned None, or the program ended with an empty stack or with zero on top
ExDenies ==
    \/ ex.halted
    \/ /\ ex.pc = Len(ex.ops)
       /\ \/ ex.result = None /\ ex.stack = <<>>
          \/ ex.result # None /\ ~truthy(Unwrap(ex.result))

\* the Executor's run is over and its value counts as true
ExAccepts ==
    /\ ~ex.halted
    /\ ex.pc = Len(ex.ops)
    /\ ex.result # None
    /\ truthy(Unwrap(ex.result))

\* the program is empty or made of Noop only
OnlyNoop == \A n \in 1..Len(ex.ops) : ex.ops[n] = Noop

\* coin_id was in the State with covhash COV_EX when the handle was created
LockedByEx(coin_id) ==
    /\ coin_id \in DOMAIN prior.coins
    /\ prior.coins[coin_id].coin_data.covhash = COV_EX

\* the transaction at position k names a coin locked by COV_EX
SpendsEx(k) ==
    \E j \in 1..Len(txx[k].inputs) : LockedByEx(txx[k].inputs[j])

\* C13: the VM denies by default.  A program whose run faults, ends with an
\* empty stack or ends with a value that is not true on top (an empty program
\* and a program of Noop only among them) does not authorize: check_raw is
\* false, no batch with a transaction spending a coin locked by it succeeds,
\* and the input task of such a transaction fails with ViolatesScript of the
\* covenant, for a fault as for a false result (unless a sibling has spent
\* one of its other coins, which is NonexistentCoin).  check_raw is true when the
\* run ends without a fault with a true value on top, and ViolatesScript is
\* raised for no covenant whose run ends so.
C13_DenyByDefault ==
    /\ (ex.pc >= 0 /\ OnlyNoop) => ~check_raw(ex.ops)
    /\ ExDenies => ~check_raw(ex.ops)
    /\ ExAccepts => check_raw(ex.ops)
    /\ (ExDenies \/ (ex.pc >= 0 /\ OnlyNoop)) =>
        \A k \in Positions :
            SpendsEx(k) =>
                /\ pc \notin {"ok", "committed"}
                /\ pc = "inputs" =>
                    /\ COV_EX \notin tasks[k].good_scripts
                    /\ tasks[k].pc # "done"
                    /\ tasks[k].pc = "del" =>
                        Unwrap(tasks[k].coin_data).coin_data.covhash # COV_EX
                /\ (pc = "failed" /\ err_at = [pass |-> "inputs", pos |-> k]) =>
                    /\ \/ err = ViolatesScript(COV_EX)
                       \/ err.kind = "NonexistentCoin" /\ ~LockedByEx(err.coin)
                    /\ LockedByEx(txx[k].inputs[1]) => err = ViolatesScript(COV_EX)
    /\ (pc = "failed" /\ err.kind = "ViolatesScript") =>
        /\ err = ViolatesScript(COV_EX)
        /\ err_at.pass = "inputs"
        /\ SpendsEx(err_at.pos)
        /\ ~ExAccepts

\* a spend of the coin locked by a program that divides by zero has failed
\* with ViolatesScript, and the program's own run has ended in a fault
C13_Witness ==
    /\ pc = "failed"
    /\ err = ViolatesScript(COV_EX)
    /\ ex.halted
    /\ ex.ops = <<PushI(0), PushI(1), Div>>

----------------------------------------------------------------------------
(* The balance check: transactions with an output denomination of which      *)
(* they spend nothing, under fee multipliers 0 and 1                         *)

BalTxUniverse ==
    { \* balanced: 10 Mel in, 9 Mel and a fee of 1 out
      Transaction(61, "Normal", <<CoinID(0, 0)>>, <<CoinData(Mel, 9, COV_TRUE)>>,
                  1, 1, {COV_TRUE}, NoData, TRUE),
      \* balanced in Mel, with an output of 0 Sym
      Transaction(62, "Normal", <<CoinID(0, 0)>>,
                  <<CoinData(Mel, 9, COV_TRUE), CoinData(Sym, 0, COV_TRUE)>>,
                  1, 1, {COV_TRUE}, NoData, TRUE),
      \* balanced in Mel, with an output of u128::MAX Sym
      Transaction(63, "Normal", <<CoinID(0, 0)>>,
                  <<CoinData(Mel, 9, COV_TRUE), CoinData(Sym, U128_MAX, COV_TRUE)>>,
                  1, 1, {COV_TRUE}, NoData, TRUE),
      \* balanced in Mel, with an output of 5 Sym
      Transaction(64, "Normal", <<CoinID(0, 0)>>,
                  <<CoinData(Mel, 9, COV_TRUE), CoinData(Sym, 5, COV_TRUE)>>,
                  1, 1, {COV_TRUE}, NoData, TRUE),
      \* 5 Sym in and out, no Mel at all: the fee is 0
      Transaction(65, "Normal", <<CoinID(0, 1)>>, <<CoinData(Sym, 5, COV_TRUE)>>,
                  0, 1, {COV_TRUE}, NoData, TRUE),
      \* a mint: its Erg output is exempt
      Transaction(66, "DoscMint", <<CoinID(0, 2)>>,
                  <<CoinData(Erg, 2, COV_TRUE), CoinData(Mel, 3, COV_TRUE)>>,
                  1, 1, {COV_TRUE}, MintData(3, TRUE, FALSE), TRUE) }

BalBatches == UNION {BatchesOver(BalTxUniverse, n) : n \in 1..MaxBatch}

BalStates == {FeeState(m, 0, 0) : m \in {0, 1}}

InitBal == InitWith(BalStates)

BeginBal == BeginFrom(BalBatches)

NextBal ==
    \/ BeginBal
    \/ Return
    \/ Admit
    \/ Special
    \/ JoinSpecial
    \/ Output
    \/ JoinOutputs
    \/ Input
    \/ JoinInputs
    \/ Commit

SpecBal == InitBal /\ [][NextBal]_vars

----------------------------------------------------------------------------
(* C15 *)

\* the denominations of tx's total outputs that the balance check compares
Compared(tx) ==
    {d \in DOMAIN total_outputs(tx) :
        d # NewCoin /\ ~(tx.kind = "DoscMint" /\ d = Erg)}

RECURSIVE SpentUpto(_, _, _)
\* the summed value, in denomination d, of the coins of the prior State named
\* by the first n inputs of tx
SpentUpto(tx, d, n) ==
    IF n = 0 THEN 0
    ELSE SpentUpto(tx, d, n - 1)
         + (IF /\ tx.inputs[n] \in DOMAIN prior.coins
               /\ prior.coins[tx.inputs[n]].coin_data.denom = d
            THEN prior.coins[tx.inputs[n]].coin_data.value ELSE 0)

\* what a transaction applied alone spends in denomination d
Spent(tx, d) == SpentUpto(tx, d, Len(tx.inputs))

\* the batch is a single transaction, not a Faucet, whose input task has
\* failed with UnbalancedInOut
AloneUnbalanced ==
    /\ Len(txx) = 1
    /\ pc = "failed"
    /\ err = UnbalancedInOut
    /\ err_at = [pass |-> "inputs", pos |-> 1]

\* C15: in the balance check a denomination of the total outputs for which no
\* input value was accumulated counts as input value zero: a transaction that
\* passes has a zero output total in every such denomination, and a
\* transaction is rejected with UnbalancedInOut only when some compared
\* denomination's output total differs from what it spends, zero included.
C15_AbsentInputIsZero ==
    /\ pc = "ok" =>
        \A k \in Positions :
            txx[k].kind # "Faucet" =>
                \A d \in Compared(txx[k]) \ DOMAIN tasks[k].in_coins :
                    total_outputs(txx[k])[d] = 0
    /\ AloneUnbalanced =>
        \E d \in Compared(txx[1]) : total_outputs(txx[1])[d] # Spent(txx[1], d)

\* What lines 240-241 do: a denomination of the total outputs for which no
\* input value was accumulated is compared as u128::MAX.  A transaction that
\* passes has an output total of u128::MAX in every such denomination, and a
\* transaction applied alone whose total in such a denomination is anything
\* else, zero included, does not pass.
C15_AbsentInputIsMax ==
    /\ pc = "ok" =>
        \A k \in Positions :
            txx[k].kind # "Faucet" =>
                \A d \in Compared(txx[k]) \ DOMAIN tasks[k].in_coins :
                    total_outputs(txx[k])[d] = U128_MAX
    /\ (Len(txx) = 1 /\ pc \in {"ok", "committed"} /\ txx[1].kind # "Faucet") =>
        \A d \in Compared(txx[1]) :
            Spent(txx[1], d) = 0 => total_outputs(txx[1])[d] = U128_MAX

\* a transaction that spends no Sym and creates u128::MAX Sym is committed
C15_Witness ==
    /\ pc = "committed"
    /\ Len(txx) = 1
    /\ Spent(txx[1], Sym) = 0
    /\ Sym \in DOMAIN total_outputs(txx[1])
    /\ total_outputs(txx[1])[Sym] = U128_MAX

----------------------------------------------------------------------------
(* Stake registration: Stake transactions that qualify on some of the States *)
(* and fail each of the conditions on others                                 *)

StakeTxUniverse ==
    { \* 5 Sym for epochs 3..4
      Transaction(71, "Stake", <<CoinID(0, 1), CoinID(0, 2)>>,
                  <<CoinData(Sym, 5, COV_TRUE), CoinData(Mel, 3, COV_TRUE)>>,
                  1, 1, {COV_TRUE}, StakeData(3, 4, 5), TRUE),
      \* syms_staked is 4, the first output 5 Sym
      Transaction(72, "Stake", <<CoinID(0, 1), CoinID(0, 2)>>,
                  <<CoinData(Sym, 5, COV_TRUE), CoinData(Mel, 3, COV_TRUE)>>,
                  1, 1, {COV_TRUE}, StakeData(3, 4, 4), TRUE),
      \* e_post_end is e_start
      Transaction(73, "Stake", <<CoinID(0, 1), CoinID(0, 2)>>,
                  <<CoinData(Sym, 5, COV_TRUE), CoinData(Mel, 3, COV_TRUE)>>,
                  1, 1, {COV_TRUE}, StakeData(4, 4, 5), TRUE),
      \* the first output is Mel
      Transaction(74, "Stake", <<CoinID(0, 0)>>, <<CoinData(Mel, 9, COV_TRUE)>>,
                  1, 1, {COV_TRUE}, StakeData(3, 4, 9), TRUE),
      \* the payload is no StakeDoc
      Transaction(75, "Stake", <<CoinID(0, 0)>>, <<CoinData(Mel, 9, COV_TRUE)>>,
                  1, 1, {COV_TRUE}, NoData, TRUE),
      \* no output at all: the coin goes to the fee
      Transaction(76, "Stake", <<CoinID(0, 0)>>, <<>>,
                  10, 1, {COV_TRUE}, StakeData(3, 4, 5), TRUE) }

StakeBatches == UNION {BatchesOver(StakeTxUniverse, n) : n \in 1..MaxBatch}

InitStake == InitWith({InitState(env) : env \in Envs})

BeginStake == BeginFrom(StakeBatches)

NextStake ==
    \/ BeginStake
    \/ Return
    \/ Admit
    \/ Special
    \/ JoinSpecial
    \/ Output
    \/ JoinOutputs
    \/ Input
    \/ JoinInputs
    \/ Commit

SpecStake == InitStake /\ [][NextStake]_vars

----------------------------------------------------------------------------
(* C16 *)

\* the transaction at position k is a Stake whose payload decodes as a StakeDoc
StakeDecodes(k) == txx[k].kind = "Stake" /\ IsSome(txx[k].data.stake)

\* its first output is in Sym
FirstOutputSym(k) == Len(txx[k].outputs) > 0 /\ txx[k].outputs[1].denom = Sym

\* the StakeDoc's amount and epochs qualify: syms_staked is the first output's
\* value, e_start is after the current epoch and e_post_end after e_start
AmountAndEpochsQualify(k) ==
    LET stake_doc == Unwrap(txx[k].data.stake)
    IN  /\ stake_doc.syms_staked = txx[k].outputs[1].value
        /\ stake_doc.e_start > epoch(prior.height)
        /\ stake_doc.e_post_end > stake_doc.e_start

\* C16 as stated: a Stake with a decodable StakeDoc that does not qualify,
\* whatever the reason, never fails the batch in the special-rule pass, and
\* nothing is registered for it.
C16_NonQualifyingSilent ==
    \A k \in Positions :
        (/\ StakeDecodes(k)
         /\ Len(txx[k].outputs) > 0
         /\ ~(FirstOutputSym(k) /\ AmountAndEpochsQualify(k)))
            => AcceptedUnregistered(k)

\* C16 amended: a Stake with a decodable StakeDoc whose first output is in Sym
\* and whose amount or epochs do not qualify is accepted by the validator and
\* nothing is registered for it; so is, under the old rules, every Stake with
\* a decodable StakeDoc and an output.  The validator fails, with MalformedTx,
\* exactly for a payload that does not decode, a transaction without outputs,
\* and, outside the old rules, a first output that is not in Sym.
C16_NonQualifyingSymSilent ==
    \A k \in Positions :
        /\ (/\ StakeDecodes(k)
            /\ Len(txx[k].outputs) > 0
            /\ \/ OldRules
               \/ FirstOutputSym(k) /\ ~AmountAndEpochsQualify(k))
                => AcceptedUnregistered(k)
        /\ (/\ txx[k].kind = "Stake"
            /\ \/ ~StakeDecodes(k)
               \/ Len(txx[k].outputs) = 0
               \/ ~OldRules /\ ~FirstOutputSym(k))
                => /\ Rejected(k)
                   /\ (pc = "failed" /\ err_at = [pass |-> "special", pos |-> k])
                        => err = MalformedTx

\* outside the old rules, a committed batch of one Stake whose syms_staked is
\* not the value of its first output, with no StakeDoc under its hash
C16_Witness ==
    /\ pc = "committed"
    /\ ~OldRules
    /\ Len(txx) = 1
    /\ StakeDecodes(1)
    /\ FirstOutputSym(1)
    /\ Unwrap(txx[1].data.stake).syms_staked # txx[1].outputs[1].value
    /\ hash_nosigs(txx[1]) \notin DOMAIN state.stakes

----------------------------------------------------------------------------
(* C17 *)

\* C17: after commit, the store holds the overlay's CoinDataHeight for every
\* CoinID whose overlay entry is present and no coin for every CoinID whose
\* entry is absent; a CoinID without an overlay entry is in the store as it
\* was before; every transaction of the batch and every transaction and
\* StakeDoc of the overlay is in the store under its hash, the other
\* transactions and StakeDocs being as before; fee_pool, tips and dosc_speed
\* are the handle's accumulators.
C17_CommitFlushes ==
    pc = "committed" =>
        LET cc == handle.coin_cache
        IN  /\ \A c \in DOMAIN cc :
                IF IsSome(cc[c])
                THEN c \in DOMAIN state.coins /\ state.coins[c] = Unwrap(cc[c])
                ELSE c \notin DOMAIN state.coins
            /\ \A c \in ((DOMAIN state.coins) \cup (DOMAIN prior.coins)) \ DOMAIN cc :
                /\ c \in DOMAIN state.coins
                /\ c \in DOMAIN prior.coins
                /\ state.coins[c] = prior.coins[c]
            /\ \A k \in Positions :
                /\ hash_nosigs(txx[k]) \in DOMAIN handle.transactions_cache
                /\ hash_nosigs(txx[k]) \in DOMAIN state.transactions
                /\ state.transactions[hash_nosigs(txx[k])] = txx[k]
            /\ \A t \in DOMAIN handle.transactions_cache :
                t \in DOMAIN state.transactions
                    /\ state.transactions[t] = handle.transactions_cache[t]
            /\ \A t \in ((DOMAIN state.transactions) \cup (DOMAIN prior.transactions))
                        \ DOMAIN handle.transactions_cache :
                /\ t \in DOMAIN state.transactions
                /\ t \in DOMAIN prior.transactions
                /\ state.transactions[t] = prior.transactions[t]
            /\ \A t \in DOMAIN handle.stakes_cache :
                t \in DOMAIN state.stakes /\ state.stakes[t] = handle.stakes_cache[t]
            /\ \A t \in ((DOMAIN state.stakes) \cup (DOMAIN prior.stakes))
                        \ DOMAIN handle.stakes_cache :
                /\ t \in DOMAIN state.stakes
                /\ t \in DOMAIN prior.stakes
                /\ state.stakes[t] = prior.stakes[t]
            /\ state.fee_pool = handle.fee_pool_cache
            /\ state.tips = handle.tips_cache
            /\ state.dosc_speed = handle.dosc_speed_cache
            /\ state.height = prior.height
            /\ state.network = prior.network

\* a commit that inserted a coin, removed a coin of the store and stored a
\* new StakeDoc
C17_Witness ==
    /\ pc = "committed"
    /\ \E c \in DOMAIN handle.coin_cache :
        IsSome(handle.coin_cache[c]) /\ c \notin DOMAIN prior.coins
    /\ \E c \in DOMAIN handle.coin_cache :
        ~IsSome(handle.coin_cache[c]) /\ c \in DOMAIN prior.coins
    /\ \E t \in DOMAIN handle.stakes_cache : t \notin DOMAIN prior.stakes
    /\ state.fee_pool > prior.fee_pool

----------------------------------------------------------------------------
(* C18 *)

\* the output slots of the batch: <<position in the batch, output index>>
OutputSlots == {<<k, n>> \in Positions \X (0..3) : n < Len(txx[k].outputs)}

\* the n-th output of the transaction at position k, counted from 0
OutputAt(k, n) == txx[k].outputs[n + 1]

\* the CoinID of that output
OutputCoinID(k, n) == CoinID(hash_nosigs(txx[k]), n)

\* the coin the output is to become
OutputCoin(k, n) ==
    LET out == OutputAt(k, n)
    IN  CoinDataHeight(
            CoinData(IF out.denom = NewCoin THEN Custom(hash_nosigs(txx[k])) ELSE out.denom,
                     out.value, out.covhash),
            prior.height)

\* the overlay has a present entry for coin_id
PresentInOverlay(coin_id) ==
    /\ handle # NoHandle
    /\ coin_id \in DOMAIN handle.coin_cache
    /\ IsSome(handle.coin_cache[coin_id])

\* C18: the output pass never fails; once the output task of a transaction
\* has run, every output not sent to the burn address has a present overlay
\* entry at (transaction hash, index) with the output's value and covhash,
\* the state's height, and the output's denomination, NewCoin being replaced
\* by Custom(transaction hash); an output sent to the burn address never has
\* a present overlay entry and is never a coin of the store.
C18_OutputPass ==
    /\ pc \in {"failed", "panic"} => err_at.pass # "outputs"
    /\ \A s \in OutputSlots :
        LET k == s[1]
            n == s[2]
        IN  IF OutputAt(k, n).covhash # coin_destroy
            THEN (pc = "outputs" /\ k \in done) =>
                    /\ PresentInOverlay(OutputCoinID(k, n))
                    /\ Unwrap(handle.coin_cache[OutputCoinID(k, n)]) = OutputCoin(k, n)
            ELSE /\ ~PresentInOverlay(OutputCoinID(k, n))
                 /\ OutputCoinID(k, n) \notin DOMAIN state.coins

\* the output pass is over for a batch with an output sent to the burn
\* address and an output that creates a new token
C18_Witness ==
    /\ pc = "outputs"
    /\ done = Positions
    /\ \E s \in OutputSlots : OutputAt(s[1], s[2]).covhash = coin_destroy
    /\ \E s \in OutputSlots :
        /\ OutputAt(s[1], s[2]).denom = NewCoin
        /\ Unwrap(handle.coin_cache[OutputCoinID(s[1], s[2])]).coin_data.denom
                = Custom(hash_nosigs(txx[s[1]]))

----------------------------------------------------------------------------
(* C19 *)

\* the admission pass has recorded the transaction at position k
Recorded(k) == hash_nosigs(txx[k]) \in DOMAIN handle.transactions_cache

\* the input slots, other than <<k, j>> itself, that name the coin of slot <<k, j>>
Rivals(k, j) == {s \in InputSlots : s # <<k, j>> /\ txx[s[1]].inputs[s[2]] = txx[k].inputs[j]}

\* C19: the passes are barriers.  While the special-rule pass runs, every
\* transaction has been through admission; before the output pass no output
\* of the batch is in the overlay; while the output pass runs, every
\* special-rule task has returned; before the input pass no input task has
\* made a step and no coin has been removed; while the input pass runs every
\* output of every transaction has been applied.  So no input task fails
\* with NonexistentCoin for a coin that a transaction of the batch creates,
\* whatever the positions of the two, unless another input names the coin too.
C19_PhaseBarriers ==
    /\ pc \in {"special", "outputs", "inputs", "ok"} =>
        \A k \in Positions : Recorded(k)
    /\ pc = "admit" =>
        /\ \A k \in Positions :
            Recorded(k) <=> \E k1 \in 1..(i - 1) : hash_nosigs(txx[k1]) = hash_nosigs(txx[k])
        /\ done = {}
    /\ pc \in {"admit", "special"} =>
        \A s \in OutputSlots :
            PresentInOverlay(OutputCoinID(s[1], s[2])) =>
                OutputCoinID(s[1], s[2]) \in DOMAIN prior.coins
    /\ pc \in {"outputs", "inputs", "ok"} =>
        \A k \in Positions :
            (StakeDecodes(k) /\ ~OldRules /\ FirstOutputSym(k) /\ AmountAndEpochsQualify(k))
                => hash_nosigs(txx[k]) \in DOMAIN handle.stakes_cache
    /\ pc \in {"admit", "special", "outputs"} =>
        /\ \A k \in Positions : tasks[k] = new_task
        /\ \A c \in DOMAIN handle.coin_cache :
            ~IsSome(handle.coin_cache[c]) => c \notin DOMAIN prior.coins
    /\ pc = "outputs" =>
        \A s \in OutputSlots :
            (OutputAt(s[1], s[2]).covhash # coin_destroy
                /\ OutputCoinID(s[1], s[2]) \notin DOMAIN prior.coins) =>
                    (PresentInOverlay(OutputCoinID(s[1], s[2])) <=>
                        \E k \in done : hash_nosigs(txx[k]) = hash_nosigs(txx[s[1]]))
    /\ pc \in {"inputs", "ok"} =>
        \A s \in OutputSlots :
            OutputAt(s[1], s[2]).covhash # coin_destroy =>
                /\ OutputCoinID(s[1], s[2]) \in DOMAIN handle.coin_cache
                /\ \/ PresentInOverlay(OutputCoinID(s[1], s[2]))
                   \/ \E r \in InputSlots :
                        txx[r[1]].inputs[r[2]] = OutputCoinID(s[1], s[2])
    /\ (pc = "failed" /\ err_at.pass = "inputs" /\ err.kind = "NonexistentCoin") =>
        \A j \in 1..Len(txx[err_at.pos].inputs) :
            (txx[err_at.pos].inputs[j] = err.coin /\ CreatedInBatch(err.coin)) =>
                Rivals(err_at.pos, j) # {}

\* a batch has succeeded in which the first transaction spends a coin that
\* the second creates
C19_Witness ==
    /\ pc = "ok"
    /\ Len(txx) = 2
    /\ \E j \in 1..Len(txx[1].inputs) :
        /\ txx[1].inputs[j].txhash = hash_nosigs(txx[2])
        /\ txx[1].inputs[j] \notin DOMAIN prior.coins

----------------------------------------------------------------------------
(* C20 *)

\* the admission loop run over the batch in hand
AdmitAll == admit_from(prior, new(prior), txx, 1)

\* the special-rule validator of the transaction at position k, run on the
\* overlay the admission loop leaves
SpecialAlone(k) == apply_tx_special(prior, AdmitAll.h, txx[k])

\* the input task of the transaction at position k, run without interruption
\* on the overlay the output pass leaves, before any other input task
InputsAlone(k) ==
    run_inputs(prior,
               outputs_from(prior, special_from(prior, AdmitAll.h, txx, 1).h, txx, 1),
               txx[k], new_task)

\* C20 as stated: the error returned is the one the in-order schedule returns
C20_FirstErrorInOrder ==
    pc = "failed" => err = InOrder.r

\* What holds instead: a failed batch returns the error of the pass that fails
\* first in pass order.  When the admission loop fails, every run returns the error
\* of the first transaction, in batch order, that it rejects.  Otherwise,
\* when some special-rule task fails, every run returns the error of one of
\* the failing special-rule tasks, and an error of the input pass is the
\* error raised by the input task of the position it is recorded for: which
\* task that is depends on the schedule.  A batch of one transaction returns
\* the error of the in-order schedule.
C20_FirstErrorInTime ==
    /\ AdmitAll.r # Ok =>
        /\ pc \notin {"special", "outputs", "inputs", "ok", "committed"}
        /\ pc = "failed" => (err = AdmitAll.r /\ err_at.pass = "admit")
    /\ (pc = "failed" /\ err_at.pass = "admit") =>
        /\ err = AdmitAll.r
        /\ err = InOrder.r
        /\ admit_from(prior, new(prior), SubSeq(txx, 1, err_at.pos - 1), 1).r = Ok
    /\ (pc = "failed" /\ err_at.pass = "special") =>
        /\ AdmitAll.r = Ok
        /\ is_special(txx[err_at.pos])
        /\ err = SpecialAlone(err_at.pos).r
    /\ (pc # "idle" /\ AdmitAll.r = Ok
            /\ \E k \in Positions : is_special(txx[k]) /\ SpecialAlone(k).r # Ok) =>
        /\ pc \notin {"outputs", "inputs", "ok", "committed"}
        /\ pc = "failed" => err_at.pass = "special"
    /\ (pc = "failed" /\ err_at.pass = "inputs") =>
        /\ AdmitAll.r = Ok
        /\ \A k \in Positions : is_special(txx[k]) => SpecialAlone(k).r = Ok
        /\ err # Ok
    /\ pc = "failed" => err_at.pass \in {"admit", "special", "inputs"}
    /\ (pc = "failed" /\ Len(txx) = 1) => err = InOrder.r

\* a batch has failed in the input pass with the error of its second
\* transaction, whose coins no other transaction names, while the input task
\* of its first transaction fails too, with another error
C20_Witness ==
    /\ pc = "failed"
    /\ Len(txx) = 2
    /\ err_at = [pass |-> "inputs", pos |-> 2]
    /\ \A j \in 1..Len(txx[2].inputs) : \A j1 \in 1..Len(txx[1].inputs) :
        txx[2].inputs[j] # txx[1].inputs[j1]
    /\ InputsAlone(1).r # Ok
    /\ InputsAlone(2).r = err
    /\ InputsAlone(1).r # err
    /\ InOrder.r = InputsAlone(1).r


----------------------------------------------------------------------------
(* C21 *)

\* the greatest number of a nonempty finite set of numbers
MaxOf(S) == CHOOSE m \in S : \A x \in S : x <= m

\* the greatest of the speed the handle was seeded with and the speeds of the
\* DoscMint transactions at the positions of ks
MaxSpeed(ks) ==
    MaxOf({prior.dosc_speed} \cup {MySpeed(k) : k \in {j \in ks : txx[j].kind = "DoscMint"}})

\* C21: the tracked maximum speed starts as the state's dosc_speed; while the
\* special-rule tasks run, in whatever order, it is the greatest of that seed
\* and the speeds (2^difficulty / coin age) of the DoscMint transactions whose
\* task has returned, so it never decreases; once the pass is over it is the
\* greatest of the seed and the speeds of all DoscMint transactions of the
\* batch, and commit writes exactly that value to the state's dosc_speed.
C21_MaxSpeed ==
    /\ pc = "admit" => handle.dosc_speed_cache = prior.dosc_speed
    /\ pc = "special" =>
        /\ handle.dosc_speed_cache = MaxSpeed(done)
        /\ handle.dosc_speed_cache >= prior.dosc_speed
    /\ pc \in {"outputs", "inputs", "ok"} =>
        handle.dosc_speed_cache = MaxSpeed(Positions)
    /\ pc = "committed" => state.dosc_speed = MaxSpeed(Positions)

\* a committed batch of two DoscMint transactions of different speeds, the
\* greater of which is above the seed and is now the state's dosc_speed
C21_Witness ==
    /\ pc = "committed"
    /\ \E k1, k2 \in Positions :
        /\ txx[k1].kind = "DoscMint"
        /\ txx[k2].kind = "DoscMint"
        /\ MySpeed(k1) < MySpeed(k2)
        /\ prior.dosc_speed < MySpeed(k2)
        /\ state.dosc_speed = MySpeed(k2)


----------------------------------------------------------------------------
(* Mints of a coin of the block under construction: a transfer creates a   *)
(* coin at the current height, and a DoscMint of a later batch names it as  *)
(* its first input                                                          *)

AgeTxUniverse ==
    { \* a transfer: its output is a coin of the current height
      Transaction(81, "Normal", <<CoinID(0, 0)>>, <<CoinData(Mel, 9, COV_TRUE)>>,
                  1, 1, {COV_TRUE}, NoData, TRUE),
      \* a mint over that output
      Transaction(82, "DoscMint", <<CoinID(81, 0)>>,
                  <<CoinData(Erg, 1, COV_TRUE), CoinData(Mel, 8, COV_TRUE)>>,
                  1, 1, {COV_TRUE}, MintData(3, TRUE, FALSE), TRUE),
      \* a mint over a coin two blocks old
      Transaction(83, "DoscMint", <<CoinID(0, 2)>>,
                  <<CoinData(Erg, 2, COV_TRUE), CoinData(Mel, 3, COV_TRUE)>>,
                  1, 1, {COV_TRUE}, MintData(3, TRUE, FALSE), TRUE) }

AgeBatches == UNION {BatchesOver(AgeTxUniverse, n) : n \in 1..MaxBatch}

InitAge == InitWith({InitState(env) : env \in Envs})

BeginAge == BeginFrom(AgeBatches)

NextAge ==
    \/ BeginAge
    \/ Return
    \/ Admit
    \/ Special
    \/ JoinSpecial
    \/ Output
    \/ JoinOutputs
    \/ Input
    \/ JoinInputs
    \/ Commit

SpecAge == InitAge /\ [][NextAge]_vars

----------------------------------------------------------------------------
(* C24 *)

\* the DoscMint at position k passes every check its validator makes before
\* the speed computation: its first input is a coin of the store, old enough
\* for the network, and its payload decodes into a proof that verifies
PassesMintChecks(k) ==
    /\ txx[k].kind = "DoscMint"
    /\ Len(txx[k].inputs) > 0
    /\ txx[k].inputs[1] \in DOMAIN prior.coins
    /\ ~TooYoung(k)
    /\ MintDecodes(k)
    /\ ProofVerifies(k)

\* the special-rule task of position k is over
MintTaskOver(k) ==
    \/ pc = "special" /\ k \in done
    \/ pc \in {"outputs", "inputs", "ok", "committed"}
    \/ pc \in {"failed", "panic"} /\ err_at = [pass |-> "special", pos |-> k]

\* C24: a DoscMint that passes the checks before the speed computation
\* spends a coin of nonzero age, and its special-rule task ends with a value,
\* a success or a StateError, never with an abort.
C24_SpeedDefined ==
    \A k \in Positions :
        (PassesMintChecks(k) /\ MintTaskOver(k)) => (CoinAge(k) # 0 /\ pc # "panic")


----------------------------------------------------------------------------
(* C22 *)

\* the number of inputs of the transaction at position k whose checks
\* (lines 189-221) have succeeded
Checked(k) ==
    IF tasks[k].pc = "done" THEN Len(txx[k].inputs)
    ELSE IF tasks[k].pc = "del" THEN tasks[k].idx
    ELSE tasks[k].idx - 1

\* C22: the good_scripts of a transaction's input task hold exactly the
\* covhashes of the coins of its own inputs checked so far, whatever the tasks
\* of the other transactions of the batch have accepted; a covenant is
\* evaluated only for the first input of the transaction whose coin has its
\* covhash, with that input's spend context: a batch fails with ViolatesScript
\* only at such a first input, which the covenant denies, and in a successful
\* batch every later input with the same covhash has been removed, the
\* covenant having accepted the first one, whether or not it would have
\* accepted the later input's own context.
C22_OncePerCovhash ==
    /\ pc \in {"inputs", "ok"} =>
        \A k \in Positions :
            tasks[k].good_scripts = {SlotCovhash(k, j) : j \in 1..Checked(k)}
    /\ (pc = "failed" /\ err.kind = "ViolatesScript") =>
        \E j \in 1..Len(txx[err_at.pos].inputs) :
            /\ HasCoin(txx[err_at.pos].inputs[j])
            /\ SlotCovhash(err_at.pos, j) = err.n
            /\ FirstWithCovhash(err_at.pos, j) = j
            /\ ~Authorizes(err_at.pos, j, j)
    /\ pc = "ok" =>
        \A s \in InputSlots :
            /\ Authorizes(s[1], s[2], FirstWithCovhash(s[1], s[2]))
            /\ ~PresentInOverlay(txx[s[1]].inputs[s[2]])

\* a successful batch of two transactions, one of which spends two coins of
\* one covhash whose covenant denies the spend context of the second: its
\* task holds that covhash alone, and the task of the other transaction does
\* not hold it
C22_Witness ==
    /\ pc = "ok"
    /\ Len(txx) = 2
    /\ \E s \in InputSlots :
        /\ FirstWithCovhash(s[1], s[2]) # s[2]
        /\ ~Authorizes(s[1], s[2], s[2])
        /\ tasks[s[1]].good_scripts = {SlotCovhash(s[1], s[2])}
        /\ \E k \in Positions :
            /\ tasks[k].good_scripts # {}
            /\ SlotCovhash(s[1], s[2]) \notin tasks[k].good_scripts


----------------------------------------------------------------------------
(* C23 *)

\* a StakeDoc is registered under the transaction hash, in the stake store
\* the handle was created on or in the handle's overlay
Registered(txhash) ==
    \/ txhash \in DOMAIN prior.stakes
    \/ handle # NoHandle /\ txhash \in DOMAIN handle.stakes_cache

\* C23: no successful batch has an input whose origin transaction hash has a
\* StakeDoc registered, in the stake store or in the overlay, whatever its
\* epochs; and a batch does not fail with NonexistentCoin for a coin of a
\* transaction that has a StakeDoc in the stake store, the lock check coming
\* first.
C23_RegisteredLocks ==
    /\ pc = "ok" =>
        \A s \in InputSlots : ~Registered(txx[s[1]].inputs[s[2]].txhash)
    /\ (pc = "failed" /\ err.kind = "NonexistentCoin") =>
        err.coin.txhash \notin DOMAIN prior.stakes

=============================================================================
